---- MODULE Spec2Model ----
(***************************************************************************)
(* State-machine model of jh, the Jira x GitHub terminal UI: the router    *)
(* (App), the per-view step machines, the SelectList / TextInput           *)
(* components, the context resolver and the slug utilities.                *)
(*                                                                         *)
(* Strings the code inspects character by character (branch names, ticket  *)
(* keys, summaries, typed text) are sequences of one-character strings.    *)
(* Every "await" of a mutating collaborator call is one step of the        *)
(* handler that issued it; its outcome (resolve / reject) is chosen by the *)
(* environment at that step.                                               *)
(***************************************************************************)
EXTENDS Integers, Sequences, FiniteSets, TLC

\* ------------------------------------------------------------------ bounds
\* Longest text a user types into a TextInput or a search box.
MaxText == 1
\* Number of tickets the tracker may create during one run.
MaxCreated == 1
\* Number of views the user opens from the main menu during one run.
MaxVisits == 1
\* Status changes the user commits from my-tickets in one run.
MaxMoves == 1

\* null for a string-valued field, and null for an object-valued field.
NULL == <<"null">>
NIL == [nil |-> TRUE]

\* ----------------------------------------------------------- characters
UpperSeq ==
  <<"A", "B", "C", "D", "E", "F", "G", "H", "I", "J", "K", "L", "M", "N", "O", "P",
     "Q", "R", "S", "T", "U", "V", "W", "X", "Y", "Z">>
LowerSeq ==
  <<"a", "b", "c", "d", "e", "f", "g", "h", "i", "j", "k", "l", "m", "n", "o", "p",
     "q", "r", "s", "t", "u", "v", "w", "x", "y", "z">>
DigitSeq == <<"0", "1", "2", "3", "4", "5", "6", "7", "8", "9">>
UpperChars == {UpperSeq[i] : i \in 1..Len(UpperSeq)}
LowerChars == {LowerSeq[i] : i \in 1..Len(LowerSeq)}
DigitChars == {DigitSeq[i] : i \in 1..Len(DigitSeq)}
IndexOf(seq, c) == CHOOSE i \in 1..Len(seq) : seq[i] = c

\* String.prototype.toLowerCase and toUpperCase on one character.
toLowerCase(c) == IF c \in UpperChars THEN LowerSeq[IndexOf(UpperSeq, c)] ELSE c
toUpperCase(c) == IF c \in LowerChars THEN UpperSeq[IndexOf(LowerSeq, c)] ELSE c

\* The class [\s_] of slugify.
IsSpaceOrUnderscore(c) == c \in {" ", "\n", "\t", "_"}
IsSlugChar(c) == c \in LowerChars \cup DigitChars \cup {"-"}

\* Collation rank used by localeCompare on project prefixes ([A-Z][A-Z0-9]*):
\* digits sort before letters.
CharRank(c) ==
  IF c \in DigitChars THEN IndexOf(DigitSeq, c)
  ELSE IF c \in UpperChars THEN Len(DigitSeq) + IndexOf(UpperSeq, c)
  ELSE Len(DigitSeq) + Len(UpperSeq) + 1

\* The value of a decimal digit.
DigitValue(c) == IndexOf(DigitSeq, c) - 1

\* ------------------------------------------------------ src/utils/slug.ts
RECURSIVE ReplaceRuns(_, _)
\* .replace(/[\s_]+/g, '-') when hyphens = FALSE; .replace(/-+/g, '-') when TRUE.
ReplaceRuns(s, hyphens) ==
  IF s = <<>> THEN <<>>
  ELSE LET hit(c) == IF hyphens THEN c = "-" ELSE IsSpaceOrUnderscore(c)
           rest == ReplaceRuns(Tail(s), hyphens)
       IN  IF hit(Head(s))
           THEN IF Len(s) > 1 /\ hit(s[2]) THEN rest ELSE <<"-">> \o rest
           ELSE <<Head(s)>> \o rest

\* String.prototype.normalize('NFD') on a lowered text: a letter with a
\* diacritic (here "e-acute", one character) becomes the letter followed by
\* the combining mark; /[\u0300-\u036f]/ is the class of combining marks.
RECURSIVE normalize(_)
normalize(s) ==
  IF s = <<>> THEN <<>>
  ELSE (IF Head(s) = "e-acute" THEN <<"e", "combining-acute">> ELSE <<Head(s)>>)
       \o normalize(Tail(s))
NotCombiningMark(c) == c # "combining-acute"

RECURSIVE StripLeading(_)
StripLeading(s) ==
  IF s # <<>> /\ Head(s) = "-" THEN StripLeading(Tail(s)) ELSE s

RECURSIVE StripTrailing(_)
StripTrailing(s) ==
  IF s # <<>> /\ s[Len(s)] = "-" THEN StripTrailing(SubSeq(s, 1, Len(s) - 1)) ELSE s

substring(s, n) == SubSeq(s, 1, IF n < Len(s) THEN n ELSE Len(s))

\* slugify without the final removal of trailing hyphens.
slugifyCut(text, maxLength) ==
  LET lowered == [i \in 1..Len(text) |-> toLowerCase(text[i])]
      dashed == ReplaceRuns(SelectSeq(normalize(lowered), NotCombiningMark), FALSE)
      cleaned == SelectSeq(dashed, IsSlugChar)
      collapsed == ReplaceRuns(cleaned, TRUE)
      trimmed == StripTrailing(StripLeading(collapsed))
  IN  substring(trimmed, maxLength)

slugify(text, maxLength) ==
  LET lowered == [i \in 1..Len(text) |-> toLowerCase(text[i])]
      dashed == ReplaceRuns(SelectSeq(normalize(lowered), NotCombiningMark), FALSE)
      cleaned == SelectSeq(dashed, IsSlugChar)
      collapsed == ReplaceRuns(cleaned, TRUE)
      trimmed == StripTrailing(StripLeading(collapsed))
  IN  StripTrailing(substring(trimmed, maxLength))

generateBranchName(ticketId, title, maxSlugLength) ==
  ticketId \o <<"/">> \o slugify(title, maxSlugLength)

RECURSIVE RunLength(_, _, _)
\* Length of the longest run of characters of `set` in s starting at index i.
RunLength(s, i, set) ==
  IF i <= Len(s) /\ s[i] \in set THEN 1 + RunLength(s, i + 1, set) ELSE 0

\* Length of the match of /^([A-Z][A-Z0-9]*-\d+)/ in s, or 0.
TicketPrefixLength(s) ==
  IF s = <<>> \/ s[1] \notin UpperChars THEN 0
  ELSE LET n == 1 + RunLength(s, 2, UpperChars \cup DigitChars)
           d == RunLength(s, n + 2, DigitChars)
       IN  IF n + 1 <= Len(s) /\ s[n + 1] = "-" /\ d > 0 THEN n + 1 + d ELSE 0

extractTicketId(branchName) ==
  IF TicketPrefixLength(branchName) = 0 THEN NULL
  ELSE SubSeq(branchName, 1, TicketPrefixLength(branchName))

extractBranchDescription(branchName) ==
  LET n == TicketPrefixLength(branchName)
      matched == n > 0 /\ n < Len(branchName) /\ branchName[n + 1] \in {"/", "-"}
      withoutTicket == IF matched THEN SubSeq(branchName, n + 2, Len(branchName))
                       ELSE branchName
  IN  IF withoutTicket = branchName THEN branchName
      ELSE IF withoutTicket = <<>> THEN NULL ELSE withoutTicket

RECURSIVE ParseInt(_)
ParseInt(digits) ==
  IF digits = <<>> THEN 0
  ELSE 10 * ParseInt(SubSeq(digits, 1, Len(digits) - 1)) + DigitValue(digits[Len(digits)])

parseTicketKey(key) ==
  LET n == TicketPrefixLength(key)
  IN  IF n > 0 /\ n = Len(key)
      THEN LET p == 1 + RunLength(key, 2, UpperChars \cup DigitChars)
           IN  [project |-> SubSeq(key, 1, p), number |-> ParseInt(SubSeq(key, p + 2, n))]
      ELSE [project |-> key, number |-> 0]

RECURSIVE localeCompare(_, _)
localeCompare(a, b) ==
  IF a = <<>> /\ b = <<>> THEN 0
  ELSE IF a = <<>> THEN -1
  ELSE IF b = <<>> THEN 1
  ELSE IF CharRank(Head(a)) < CharRank(Head(b)) THEN -1
  ELSE IF CharRank(Head(a)) > CharRank(Head(b)) THEN 1
  ELSE localeCompare(Tail(a), Tail(b))

\* A comparator that puts the lower number first within a project.
CompareTicketsAscending(a, b) ==
  LET pa == parseTicketKey(a.key)
      pb == parseTicketKey(b.key)
      projectCompare == localeCompare(pa.project, pb.project)
  IN  IF projectCompare # 0 THEN projectCompare ELSE pa.number - pb.number

\* The comparator of sortTicketsByKey: negative when a sorts before b.
CompareTickets(a, b) ==
  LET pa == parseTicketKey(a.key)
      pb == parseTicketKey(b.key)
      projectCompare == localeCompare(pa.project, pb.project)
  IN  IF projectCompare # 0 THEN projectCompare ELSE pb.number - pa.number

RECURSIVE InsertSorted(_, _)
InsertSorted(sorted, t) ==
  IF sorted = <<>> THEN <<t>>
  ELSE IF CompareTickets(t, Head(sorted)) < 0 THEN <<t>> \o sorted
  ELSE <<Head(sorted)>> \o InsertSorted(Tail(sorted), t)

RECURSIVE sortTicketsByKey(_)
\* [...tickets].sort(cmp): Array.prototype.sort is stable.
sortTicketsByKey(tickets) ==
  IF tickets = <<>> THEN <<>>
  ELSE InsertSorted(sortTicketsByKey(SubSeq(tickets, 1, Len(tickets) - 1)),
                    tickets[Len(tickets)])

\* ------------------------------------------------------------- fixtures
MainBranch == <<"m", "a", "i", "n">>
FeatBranch == <<"f", "i", "x", "/", "b">>
RepoId == <<"o", "/", "r">>
WorkspaceName == <<"a", "c", "m", "e">>
Workspace ==
  [domain |-> <<"a", "c", "m", "e", ".", "n", "e", "t">>, email |-> <<"dev@acme.io">>,
   defaultProject |-> <<"P">>]
Token == <<"tok">>

\* Tickets the tracker holds at start.
Key1 == <<"P", "-", "1">>
Key2 == <<"A", "-", "2">>
Ticket1 == [summary |-> <<"A", " ", "b">>, issueType |-> "Task", status |-> "To Do"]
Ticket2 == [summary |-> <<"b", "!">>, issueType |-> "Epic", status |-> "To Do"]
LinkedBranch == generateBranchName(Key1, Ticket1.summary, 50)

\* Answers of the tracker's search for "my issues", in the tracker's order.
TicketLists == {<<>>, <<Key1>>, <<Key1, Key2>>}

\* Keys of tickets the tracker creates, in order of creation: P-2, P-22, ...
CreatedKey(n) == <<"P", "-">> \o [i \in 1..n |-> "2"]

\* ---------------------------------------------------------------- state
VARIABLES
  git,          \* the repository: isRepo, current branch, local branches, origin
  cfg,          \* ~/.jh-cli/config.yaml: absent, invalid, or a valid document
  creds,        \* ~/.jh-cli/credentials.yaml: workspace name -> token
  jira,         \* the tracker: status of every ticket, number of created tickets
  remote,       \* origin: branches pushed, branches that have a pull request
  currentView,  \* AppState.currentView
  context,      \* AppState.context
  isConfigured, \* AppState.isConfigured
  exited,       \* exit() was called
  boot,         \* position of App's initialize() effect
  v,            \* useState fields of the mounted view
  sl,           \* useState fields of the mounted SelectList, if any
  load,         \* the mounted view's load effect: "idle" or "running"
  job,          \* the mounted view's submitting handler: its position and locals
  visits        \* number of views the user has opened from the main menu

env == <<git, cfg, creds, jira, remote>>
session == <<isConfigured, exited, boot, visits>>
router == <<currentView, context, session>>
vars == <<git, cfg, creds, jira, remote, currentView, context, isConfigured,
          exited, boot, v, sl, load, job, visits>>

Idle == [pc |-> "idle"]
NoList ==
  [mounted |-> FALSE, searchable |-> FALSE, selectedIndex |-> 0, searchQuery |-> <<>>,
   filteredItems |-> <<>>]

\* ------------------------------------------------- keys (ink's useInput)
\* A key event: its name and the `input` string ink passes with it. ink passes
\* '' for the named keys; for backspace both '' and the raw byte are explored.
Key(name, input) == [name |-> name, input |-> input]
NamedKeys ==
  {Key(n, "") : n \in {"up", "down", "left", "right", "return", "escape", "tab", "backspace"}}
  \cup {Key("backspace", "raw")}
\* Printable characters typed into text fields and search boxes.
TypedKeys == {Key("char", c) : c \in {"q", " "}}
\* A printable character the search box's pattern /[a-zA-Z0-9\s-]/ rejects.
OtherKeys == {Key("char", "!")}
\* Digits, explored as main-menu shortcuts.
DigitKeys == {Key("char", c) : c \in {"1", "2", "3", "4", "5", "6", "7", "8", "9"}}
Keys == NamedKeys \cup TypedKeys \cup OtherKeys \cup DigitKeys
\* The keys of a user who navigates and types without correcting: no backspace,
\* one letter; and the same with the digit shortcuts of the main menu.
AppKeys ==
  {Key(n, "") : n \in {"up", "down", "left", "right", "return", "escape", "tab"}}
  \cup {Key("char", "q")}
MenuKeys == AppKeys \cup DigitKeys
\* The keys of a user who only moves through lists and steps.
NavKeys == {Key(n, "") : n \in {"up", "down", "return", "escape"}}

\* ------------------------------------------- src/services/config.ts (store)
ValidConfig(mappings) ==
  [state |-> "valid",
   workspaces |-> [n \in {WorkspaceName} |-> Workspace],
   mappings |-> mappings,
   baseBranch |-> MainBranch,
   slugMaxLength |-> 50]

\* ConfigManager.exists
ConfigExists == cfg.state # "absent"
\* ConfigManager.load resolves exactly when the file parses against the schema.
ConfigLoads == cfg.state = "valid"

\* ConfigManager.getJiraToken: never rejects (loadCredentials catches).
getJiraToken(workspace) ==
  IF workspace \in DOMAIN creds THEN creds[workspace] ELSE NULL

\* ConfigManager.resolveWorkspace, for a config that loads.
\* resolveWorkspace with the two lookups in the other order.
resolveWorkspaceWildcardFirst(repoIdentifier) ==
  LET owner == SubSeq(repoIdentifier, 1, RunLength(repoIdentifier, 1,
                 {repoIdentifier[i] : i \in 1..Len(repoIdentifier)} \ {"/"}))
      wildcardKey == owner \o <<"/", "*">>
      Truthy(key) == key \in DOMAIN cfg.mappings /\ cfg.mappings[key] # <<>>
  IN  IF Truthy(wildcardKey) THEN cfg.mappings[wildcardKey]
      ELSE IF Truthy(repoIdentifier) THEN cfg.mappings[repoIdentifier]
      ELSE NULL

resolveWorkspace(repoIdentifier) ==
  LET owner == SubSeq(repoIdentifier, 1, RunLength(repoIdentifier, 1,
                 {repoIdentifier[i] : i \in 1..Len(repoIdentifier)} \ {"/"}))
      wildcardKey == owner \o <<"/", "*">>
      \* config.mappings[key] as a condition: a key that is present and whose
      \* name is not the empty string
      Truthy(key) == key \in DOMAIN cfg.mappings /\ cfg.mappings[key] # <<>>
  IN  IF Truthy(repoIdentifier) THEN cfg.mappings[repoIdentifier]
      ELSE IF Truthy(wildcardKey) THEN cfg.mappings[wildcardKey]
      ELSE NULL

\* ConfigManager.getWorkspaceConfig, for a config that loads.
getWorkspaceConfig(name) ==
  IF name \in DOMAIN cfg.workspaces THEN cfg.workspaces[name] ELSE NIL

\* ------------------------------------ src/services/config.ts (ContextService)
\* An extraction that stops after the first digit of the number.
ContextExtractTicketIdOneDigit(branchName) ==
  LET n == TicketPrefixLength(branchName)
      dash == CHOOSE i \in 1..n : branchName[i] = "-"
  IN  IF n = 0 THEN NULL ELSE SubSeq(branchName, 1, dash + 1)

\* ContextService.extractTicketId: branchName.match(/^([A-Z][A-Z0-9]*-\d+)/)
ContextExtractTicketId(branchName) ==
  LET n == TicketPrefixLength(branchName)
  IN  IF n = 0 THEN NULL ELSE SubSeq(branchName, 1, n)

DefaultContext ==
  [isGitRepo |-> FALSE, currentBranch |-> NULL, repoIdentifier |-> NULL,
   workspaceName |-> NULL, workspace |-> NIL, linkedTicketId |-> NULL,
   commitsAhead |-> 0]

\* GitManager.getCommitsAhead(base): commits of HEAD that base lacks.
getCommitsAhead(base) == IF git.current = base THEN 0 ELSE 1

\* getContext fetching the settings of the configured workspace whether or not
\* the repository resolved to a name.
getContextDefaultWorkspace ==
  IF ~git.isRepo THEN [raised |-> FALSE, ctx |-> DefaultContext]
  ELSE IF git.remote # NULL /\ ~ConfigLoads THEN [raised |-> TRUE, ctx |-> DefaultContext]
  ELSE LET name == IF git.remote # NULL THEN resolveWorkspace(git.remote) ELSE NULL
           ws == IF ConfigLoads THEN getWorkspaceConfig(WorkspaceName) ELSE NIL
       IN  [raised |-> FALSE,
            ctx |-> [isGitRepo |-> TRUE,
                     currentBranch |-> git.current,
                     repoIdentifier |-> git.remote,
                     workspaceName |-> name,
                     workspace |-> ws,
                     linkedTicketId |-> IF git.current # NULL
                                        THEN ContextExtractTicketId(git.current)
                                        ELSE NULL,
                     commitsAhead |-> IF ConfigLoads THEN getCommitsAhead(cfg.baseBranch)
                                      ELSE 0]]

\* ContextService.getContext: the context it resolves to, or raised = TRUE when
\* the un-guarded config load of resolveWorkspace / getWorkspaceConfig rejects.
getContext ==
  IF ~git.isRepo THEN [raised |-> FALSE, ctx |-> DefaultContext]
  ELSE IF git.remote # NULL /\ ~ConfigLoads THEN [raised |-> TRUE, ctx |-> DefaultContext]
  ELSE LET name == IF git.remote # NULL THEN resolveWorkspace(git.remote) ELSE NULL
           ws == IF name # NULL THEN getWorkspaceConfig(name) ELSE NIL
       IN  [raised |-> FALSE,
            ctx |-> [isGitRepo |-> TRUE,
                     currentBranch |-> git.current,
                     repoIdentifier |-> git.remote,
                     workspaceName |-> name,
                     workspace |-> ws,
                     linkedTicketId |-> IF git.current # NULL
                                        THEN ContextExtractTicketId(git.current)
                                        ELSE NULL,
                     commitsAhead |-> IF ConfigLoads THEN getCommitsAhead(cfg.baseBranch)
                                      ELSE 0]]

\* The collaborators getContext invokes, without the early return of a
\* directory that is not a repository.
getContextCallsUnguarded ==
  {"isGitRepo", "getCurrentBranch", "getRepoIdentifier", "load"}
  \cup (IF git.remote # NULL THEN {"resolveWorkspace"} ELSE {})
  \cup (IF ConfigLoads THEN {"getCommitsAhead"} ELSE {})

\* The collaborators ContextService.getContext invokes, in the state it is
\* called in: the git queries, the configuration lookups and the file load.
getContextCalls ==
  IF ~git.isRepo THEN {"isGitRepo"}
  ELSE {"isGitRepo", "getCurrentBranch", "getRepoIdentifier"}
       \cup (IF git.remote # NULL THEN {"resolveWorkspace"} ELSE {})
       \cup (IF git.remote # NULL /\ ConfigLoads /\ resolveWorkspace(git.remote) # NULL
             THEN {"getWorkspaceConfig"} ELSE {})
       \cup (IF git.remote # NULL /\ ~ConfigLoads THEN {}
             ELSE {"load"} \cup (IF ConfigLoads THEN {"getCommitsAhead"} ELSE {}))

\* -------------------------------------------------- src/services/git.ts
\* GitManager.createBranch(name, base) runs `git checkout -b name base`: the new
\* branch exists and is checked out afterwards.
GitCreated(name) == [git EXCEPT !.branches = @ \cup {name}, !.current = name]
\* A git that creates a branch over one of the same name.
GitCanCreateOver(name, base) == base \in git.branches
GitCanCreate(name, base) == name \notin git.branches /\ base \in git.branches
\* GitManager.checkoutBranch(name)
GitCheckedOut(name) == [git EXCEPT !.current = name]
GitCanCheckout(name) == name \in git.branches
\* GitManager.renameBranch(old, new) runs `git branch -m old new`.
GitRenamed(old, new) ==
  [git EXCEPT !.branches = (@ \ {old}) \cup {new},
              !.current = IF @ = old THEN new ELSE @]
GitCanRename(old, new) == old \in git.branches /\ new \notin git.branches

\* ------------------------------------------------- src/clients/jira.ts
\* A JiraIssue as the client returns it now.
Issue(key) ==
  [key |-> key, summary |-> jira.issues[key].summary,
   issueType |-> jira.issues[key].issueType, status |-> jira.issues[key].status]
Issues(keys) == [i \in 1..Len(keys) |-> Issue(keys[i])]
\* JiraClient.getIssue when the request is answered: null on 404.
getIssue(ticketId) == IF ticketId \in DOMAIN jira.issues THEN Issue(ticketId) ELSE NIL
\* The tracker after a successful transition of `key` to `status`.
JiraTransitioned(key, status) ==
  [jira EXCEPT !.issues[key].status = status, !.moved = @ + 1]

\* ------------------------------------------- select-list.tsx (SelectList)
\* The text fuse.js searches: the item's label, `${key}  ${summary}`.
ItemLabel(item) == item.key \o <<" ", " ">> \o item.summary

RECURSIVE IsSubsequence(_, _)
IsSubsequence(q, text) ==
  IF q = <<>> THEN TRUE
  ELSE IF text = <<>> THEN FALSE
  ELSE IF toLowerCase(Head(q)) = toLowerCase(Head(text))
       THEN IsSubsequence(Tail(q), Tail(text))
       ELSE IsSubsequence(q, Tail(text))

\* fuse.search(query) of the fuse.js library, which is not part of the
\* repository: modelled as the items whose label contains the query's
\* characters in order, ignoring case.
FuseSearch(items, query) ==
  LET Matches(item) == IsSubsequence(query, ItemLabel(item))
  IN  SelectSeq(items, Matches)

\* useState initial values of a SelectList mounted over `items`.
SelectListInit(items, searchable) ==
  [mounted |-> TRUE, searchable |-> searchable, selectedIndex |-> 0,
   searchQuery |-> <<>>, filteredItems |-> items]

\* A filter that narrows what is displayed and leaves the cursor where it is.
SelectListFilterDisplayed(list, items) ==
  IF ~list.searchable \/ list.searchQuery = <<>>
  THEN [list EXCEPT !.filteredItems = items]
  ELSE [list EXCEPT !.filteredItems = FuseSearch(list.filteredItems, list.searchQuery)]

\* The filter effect (deps [searchQuery, items, searchable]).
SelectListFilter(list, items) ==
  IF ~list.searchable \/ list.searchQuery = <<>>
  THEN [list EXCEPT !.filteredItems = items, !.selectedIndex = 0]
  ELSE [list EXCEPT !.filteredItems = FuseSearch(items, list.searchQuery),
                    !.selectedIndex = 0]

\* The pattern /[a-zA-Z0-9\s-]/ of the search box.
SearchChar(c) == c \in UpperChars \cup LowerChars \cup DigitChars \cup {" ", "\n", "-"}

\* circular cursor movement shared by the lists
CursorUp(index, n) == IF index > 0 THEN index - 1 ELSE n - 1
CursorDown(index, n) == IF index < n - 1 THEN index + 1 ELSE 0

\* SelectList's useInput for the keys it handles itself (arrows and search
\* input); escape and return are dispatched by the view that owns the list.
\* A change of searchQuery runs the filter effect before the next event.
SelectListInput(list, items, k) ==
  IF k.name = "up"
  THEN [list EXCEPT !.selectedIndex = CursorUp(@, Len(list.filteredItems))]
  ELSE IF k.name = "down"
  THEN [list EXCEPT !.selectedIndex = CursorDown(@, Len(list.filteredItems))]
  ELSE IF list.searchable /\ k.input # ""
  THEN IF k.name = "backspace"
       THEN IF list.searchQuery = <<>> THEN list
            ELSE SelectListFilter(
                   [list EXCEPT !.searchQuery = SubSeq(@, 1, Len(@) - 1)], items)
       ELSE IF SearchChar(k.input)
       THEN SelectListFilter([list EXCEPT !.searchQuery = Append(@, k.input)], items)
       ELSE list
  ELSE list

\* The environment types at most MaxText characters into one box.
CanType(text, k) == k.name # "char" \/ Len(text) < MaxText
ListKeyAllowed(k) == ~sl.mounted \/ ~sl.searchable \/ CanType(sl.searchQuery, k)

\* `filteredItems[selectedIndex]` is an item (JavaScript indexes from 0).
HasSelection(list) ==
  list.selectedIndex >= 0 /\ list.selectedIndex < Len(list.filteredItems)
Selection(list) == list.filteredItems[list.selectedIndex + 1]

\* ------------------------------------------------- views: initial state
Views == {"loading", "setup", "main", "start-work", "new-ticket", "my-tickets",
          "switch-branch", "link-branch", "settings", "create-ticket-from-branch",
          "create-pr", "update-ticket-status"}

\* MainMenu: useState initial values; both effects run on mount.
InitMainMenu ==
  [step |-> "menu", selectedIndex |-> 0, linkedTicket |-> NIL, prUrl |-> "null",
   ticketFetch |-> "running", prFetch |-> "running"]

InitStartWork ==
  [step |-> "loading", tickets |-> <<>>, selectedTicket |-> NIL, branchName |-> <<>>,
   error |-> "", confirmIndex |-> 0]

InitNewTicket ==
  [step |-> "loading", issueTypes |-> <<>>, selectedType |-> "null", title |-> <<>>,
   description |-> <<>>, activeSprints |-> <<>>, linkedTicketSprintName |-> "null",
   selectedSprintId |-> 0, sprintIndex |-> 0, createdTicket |-> NIL,
   branchName |-> <<>>, error |-> "", confirmIndex |-> 0]

InitLinkBranch ==
  [step |-> "loading", tickets |-> <<>>, selectedTicket |-> NIL, newBranchName |-> <<>>,
   error |-> "", confirmIndex |-> 0]

InitSwitchBranch ==
  [step |-> "loading", branches |-> <<>>, selectedBranch |-> <<>>, error |-> "",
   selectedIndex |-> 0, currentPage |-> 0]

\* formatDate(new Date()) and the date a week later, each one unit of text.
Today == <<"2026-11-01">>
NextWeek == <<"2026-11-08">>

InitCreateTicketFromBranch ==
  [step |-> "loading", error |-> "", issueTypes |-> <<>>, sprints |-> <<>>,
   currentUser |-> "null", commitMessages |-> <<>>, jiraClient |-> FALSE,
   selectedTypeIndex |-> 0, title |-> <<>>, description |-> <<>>,
   selectedSprintIndex |-> 0, startDate |-> Today, dueDate |-> <<>>,
   confirmIndex |-> 0, createdTicketKey |-> <<>>, createdBranchName |-> <<>>]

InitCreatePR ==
  [step |-> "loading", error |-> "", ticket |-> NIL, jiraUrl |-> "", needsPush |-> FALSE,
   baseBranch |-> MainBranch, title |-> <<>>, body |-> <<>>, pushIndex |-> 0,
   confirmIndex |-> 0, prUrl |-> "", doneIndex |-> 0]

InitUpdateTicketStatus ==
  [step |-> "loading", error |-> "", ticket |-> NIL, transitions |-> <<>>,
   selectedIndex |-> 0, newStatus |-> "", client |-> FALSE]

InitSetup ==
  [step |-> "welcome", domain |-> <<>>, email |-> <<>>, token |-> <<>>, projects |-> <<>>,
   selectedProject |-> <<>>, repoIdentifier |-> NULL, error |-> ""]

InitSettings == [step |-> "menu", config |-> NIL]

\* Settings: menuItems
SettingsItem(label, action) == [label |-> label, action |-> action]
SettingsItems ==
  << SettingsItem("Jira workspaces", "workspaces"),
     SettingsItem("Repository mappings", "mappings"),
     SettingsItem("Branch format", "branch-format"),
     SettingsItem("View configuration", "view-config"),
     SettingsItem("Re-run setup", "setup") >>

\* MyTickets: useState initial values; `client` is jiraClientRef.current and
\* `fetches` the getAvailableTransitions requests in flight.
InitMyTickets ==
  [step |-> "loading", tickets |-> <<>>, filteredTickets |-> <<>>, selectedTicket |-> NIL,
   childIssues |-> <<>>, selectedChildTicket |-> NIL, filter |-> "active", error |-> "",
   detailIndex |-> 0, childDetailIndex |-> 0, client |-> FALSE,
   availableTransitions |-> <<>>, selectedTransitionIndex |-> -1,
   isEditingStatus |-> FALSE, isSavingStatus |-> FALSE,
   childAvailableTransitions |-> <<>>, childSelectedTransitionIndex |-> -1,
   isEditingChildStatus |-> FALSE, fetches |-> {},
   \* the ticket ids the two transition lists were requested with
   transitionsOf |-> NULL, childTransitionsOf |-> NULL]

InitialView(view) ==
  CASE view = "main" -> InitMainMenu
    [] view = "my-tickets" -> InitMyTickets
    [] view = "setup" -> InitSetup
    [] view = "settings" -> InitSettings
    [] view = "create-pr" -> InitCreatePR
    [] view = "update-ticket-status" -> InitUpdateTicketStatus
    [] view = "create-ticket-from-branch" -> InitCreateTicketFromBranch
    [] view = "switch-branch" -> InitSwitchBranch
    [] view = "link-branch" -> InitLinkBranch
    [] view = "start-work" -> InitStartWork
    [] view = "new-ticket" -> InitNewTicket
    [] OTHER -> [step |-> "loading", error |-> ""]

\* Views whose mount effect loads data and then leaves step loading.
LoadViews ==
  {"start-work", "new-ticket", "link-branch", "switch-branch", "create-ticket-from-branch",
   "create-pr", "update-ticket-status", "my-tickets"}

\* ------------------------------------------------------- app.tsx (router)
\* What mounting `view` does to the mounted-view state.
Mounted(view) ==
  /\ v' = InitialView(view)
  /\ sl' = IF view = "settings" THEN SelectListInit(SettingsItems, FALSE) ELSE NoList
  /\ load' = IF view \in LoadViews THEN "running" ELSE "idle"
  /\ job' = Idle

\* A router that keeps the mounted view's state across the switch.
navigateKeepingState(view) ==
  /\ currentView' = view
  /\ UNCHANGED <<v, sl, load, job>>

\* navigate(view): setState(prev => ({...prev, currentView: view}))
navigate(view) ==
  /\ currentView' = view
  /\ Mounted(view)

\* The dependency list of the mounted view's load effect changes with the new
\* context. getWorkspaceConfig parses the file again on every call, so a
\* non-null workspace is a new object on every getContext.
DepsChanged(old, new) ==
  \/ old.workspace # NIL \/ new.workspace # NIL
  \/ old.workspaceName # new.workspaceName
  \/ currentView = "create-ticket-from-branch" /\ old.currentBranch # new.currentBranch
  \/ currentView \in {"create-pr", "update-ticket-status"}
       /\ old.linkedTicketId # new.linkedTicketId

\* refreshContext's setState(prev => ({...prev, context})), and the effects the
\* re-render of the mounted view starts.
ContextSet(new) ==
  /\ context' = new
  /\ load' = IF currentView \in LoadViews /\ DepsChanged(context, new)
             THEN "running" ELSE load

\* App's initialize() effect.
Initialize ==
  /\ boot = "pending"
  /\ ~exited
  /\ UNCHANGED <<env, exited, visits>>
  /\ IF ~ConfigExists
     THEN /\ boot' = "done"
          /\ currentView' = "setup"
          /\ Mounted("setup")
          /\ isConfigured' = FALSE
          /\ UNCHANGED context
     ELSE IF getContext.raised
     THEN /\ boot' = "failed"
          /\ UNCHANGED <<currentView, context, isConfigured, v, sl, load, job>>
     ELSE /\ boot' = "done"
          /\ currentView' = "main"
          /\ Mounted("main")
          /\ context' = getContext.ctx
          /\ isConfigured' = TRUE

\* ----------------------------------------------------- views/main-menu.tsx
MenuItem(label, view, show) == [label |-> label, view |-> view, show |-> show]
IsShown(item) == item.show
\* A menu that offers 'Create PR' and 'Link branch' in every repository.
visibleItemsAnyBranch ==
  LET linked == context.linkedTicketId # NULL
      hasPr == v.prUrl # "null"
      onBase == context.currentBranch \in {MainBranch, <<"m", "a", "s", "t", "e", "r">>}
  IN  SelectSeq(
        << MenuItem("Update ticket status", "update-ticket-status", linked),
           MenuItem("Open Jira ticket in browser", "action", linked),
           MenuItem("Open PR in browser", "action", hasPr),
           MenuItem("Create PR for current branch", "create-pr",
                    context.isGitRepo /\ ~hasPr),
           MenuItem("Create a new ticket", "new-ticket", TRUE),
           MenuItem("My tickets", "my-tickets", TRUE),
           MenuItem("Switch branch", "switch-branch", context.isGitRepo),
           MenuItem("Create ticket from current branch", "create-ticket-from-branch",
                    context.isGitRepo /\ ~linked /\ ~onBase),
           MenuItem("Link branch to ticket", "link-branch", context.isGitRepo),
           MenuItem("Settings", "settings", TRUE) >>,
        IsShown)

visibleItems ==
  LET linked == context.linkedTicketId # NULL
      hasPr == v.prUrl # "null"
      onBase == context.currentBranch \in {MainBranch, <<"m", "a", "s", "t", "e", "r">>}
  IN  SelectSeq(
        << MenuItem("Update ticket status", "update-ticket-status", linked),
           MenuItem("Open Jira ticket in browser", "action", linked),
           MenuItem("Open PR in browser", "action", hasPr),
           MenuItem("Create PR for current branch", "create-pr",
                    context.isGitRepo /\ linked /\ ~hasPr),
           MenuItem("Create a new ticket", "new-ticket", TRUE),
           MenuItem("My tickets", "my-tickets", TRUE),
           MenuItem("Switch branch", "switch-branch", context.isGitRepo),
           MenuItem("Create ticket from current branch", "create-ticket-from-branch",
                    context.isGitRepo /\ ~linked /\ ~onBase),
           MenuItem("Link branch to ticket", "link-branch", context.isGitRepo /\ ~linked),
           MenuItem("Settings", "settings", TRUE) >>,
        IsShown)

\* handleSelect(item): an action item opens the browser, a view item navigates.
handleSelect(item) ==
  IF item.view = "action" THEN UNCHANGED <<currentView, v, sl, load, job>>
  ELSE navigate(item.view)

ShortcutNumber(k) ==
  IF k.name = "char" /\ k.input \in {"1", "2", "3", "4", "5", "6", "7", "8", "9"}
  THEN CHOOSE n \in 1..9 : k.input = <<"1", "2", "3", "4", "5", "6", "7", "8", "9">>[n]
  ELSE 0

\* The items key `k` makes MainMenu's useInput hand to handleSelect.
MenuSelected(k) ==
  IF k.name = "return" /\ v.selectedIndex \in 0..(Len(visibleItems) - 1)
  THEN <<visibleItems[v.selectedIndex + 1]>>
  ELSE IF ShortcutNumber(k) \in 1..Len(visibleItems)
  THEN <<visibleItems[ShortcutNumber(k)]>>
  ELSE <<>>

\* A main menu in which escape quits as well.
MainMenuInputEscapeQuits(k) ==
  /\ currentView = "main"
  /\ ~exited
  /\ UNCHANGED <<env, context, isConfigured, boot>>
  /\ LET opens == k # Key("char", "q") /\ MenuSelected(k) # <<>>
                   /\ MenuSelected(k)[1].view # "action"
     IN  /\ opens => visits < MaxVisits
         /\ visits' = IF opens THEN visits + 1 ELSE visits
  /\ IF k = Key("char", "q") \/ k.name = "escape"
     THEN exited' = TRUE /\ UNCHANGED <<currentView, v, sl, load, job>>
     ELSE /\ UNCHANGED exited
          /\ IF k.name = "up"
             THEN /\ v' = [v EXCEPT !.selectedIndex = CursorUp(@, Len(visibleItems))]
                  /\ UNCHANGED <<currentView, sl, load, job>>
             ELSE IF k.name = "down"
             THEN /\ v' = [v EXCEPT !.selectedIndex = CursorDown(@, Len(visibleItems))]
                  /\ UNCHANGED <<currentView, sl, load, job>>
             ELSE IF MenuSelected(k) # <<>> THEN handleSelect(MenuSelected(k)[1])
             ELSE UNCHANGED <<currentView, v, sl, load, job>>

\* MainMenu's useInput together with App's global quit handler.
MainMenuInput(k) ==
  /\ currentView = "main"
  /\ ~exited
  /\ UNCHANGED <<env, context, isConfigured, boot>>
  /\ LET opens == k # Key("char", "q") /\ MenuSelected(k) # <<>>
                   /\ MenuSelected(k)[1].view # "action"
     IN  /\ opens => visits < MaxVisits
         /\ visits' = IF opens THEN visits + 1 ELSE visits
  /\ IF k = Key("char", "q")
     THEN exited' = TRUE /\ UNCHANGED <<currentView, v, sl, load, job>>
     ELSE /\ UNCHANGED exited
          /\ IF k.name = "up"
             THEN /\ v' = [v EXCEPT !.selectedIndex = CursorUp(@, Len(visibleItems))]
                  /\ UNCHANGED <<currentView, sl, load, job>>
             ELSE IF k.name = "down"
             THEN /\ v' = [v EXCEPT !.selectedIndex = CursorDown(@, Len(visibleItems))]
                  /\ UNCHANGED <<currentView, sl, load, job>>
             ELSE IF MenuSelected(k) # <<>> THEN handleSelect(MenuSelected(k)[1])
             ELSE UNCHANGED <<currentView, v, sl, load, job>>

\* MainMenu's fetchPrUrl effect settles: `gh pr view` answers with the URL of
\* the checked-out branch's pull request, or fails.
MainMenuPrUrl ==
  /\ currentView = "main" /\ ~exited
  /\ v.prFetch = "running"
  /\ \E failed \in BOOLEAN :
       v' = [v EXCEPT !.prFetch = "idle",
                      !.prUrl = IF context.currentBranch \in
                                     {NULL, MainBranch, <<"m", "a", "s", "t", "e", "r">>}
                                   \/ failed \/ git.current \notin remote.prs
                                THEN "null" ELSE "url"]
  /\ UNCHANGED <<env, router, sl, load, job>>

\* MainMenu's fetchTicket effect settles.
MainMenuTicket ==
  /\ currentView = "main" /\ ~exited
  /\ v.ticketFetch = "running"
  /\ \E failed \in BOOLEAN :
       v' = [v EXCEPT !.ticketFetch = "idle",
                      !.linkedTicket =
                        IF context.linkedTicketId = NULL \/ context.workspace = NIL
                           \/ getJiraToken(context.workspaceName) = NULL \/ failed
                        THEN @ ELSE getIssue(context.linkedTicketId)]
  /\ UNCHANGED <<env, router, sl, load, job>>

\* -------------------------------------------------------- shared by views
\* A handler that returns without calling a setter.
Stay == UNCHANGED <<currentView, v, sl, load, job>>

\* A handler whose catch block returns to the confirm step.
FailedToConfirm(message) ==
  /\ v' = [v EXCEPT !.step = "confirm", !.error = message]
  /\ sl' = NoList
  /\ job' = Idle

\* setError(message); setStep('error') ends the handler.
Failed(message) ==
  /\ v' = [v EXCEPT !.step = "error", !.error = message]
  /\ sl' = NoList
  /\ job' = Idle

\* The messages of the exceptions the collaborators reject with.
CallError == "Request failed"
GitError == "git failed"
ConfigError == "config invalid"

\* A handler of the terminal steps that answers enter only.
TerminalInputEnterOnly(k) ==
  IF k.name = "return" THEN navigate("main") ELSE Stay

\* A handler of the terminal steps that answers escape only.
TerminalInputEscapeOnly(k) ==
  IF k.name = "escape" THEN navigate("main") ELSE Stay

\* The handler of the steps done and error: enter / escape -> navigate('main').
TerminalInput(k) ==
  IF k.name \in {"return", "escape"} THEN navigate("main") ELSE Stay

\* A step that renders a SelectList over `items`: the list's useInput.
ListInput(items, k, OnSelect(_), OnBack) ==
  IF k.name = "escape" THEN OnBack
  ELSE IF k.name = "return" /\ Len(sl.filteredItems) > 0
  THEN IF HasSelection(sl) THEN OnSelect(Selection(sl)) ELSE Stay
  ELSE /\ sl' = SelectListInput(sl, items, k)
       /\ UNCHANGED <<currentView, v, load, job>>

\* setStep(step) to a step that renders a SelectList over `items`.
ToListStep(step, items, searchable) ==
  /\ v' = [v EXCEPT !.step = step]
  /\ sl' = SelectListInit(items, searchable)
  /\ UNCHANGED <<currentView, load, job>>

\* setStep(step) to a step without a SelectList.
ToStep(step) ==
  /\ v' = [v EXCEPT !.step = step]
  /\ sl' = NoList
  /\ UNCHANGED <<currentView, load, job>>

\* TextInput's useInput on the keys that edit the value.
TextEdit(value, k, multiline) ==
  IF k.name = "backspace"
  THEN IF value = <<>> THEN value ELSE SubSeq(value, 1, Len(value) - 1)
  ELSE IF k.name = "return" /\ multiline THEN Append(value, "\n")
  ELSE IF k.name = "char" THEN Append(value, k.input)
  ELSE value

\* The environment grows a text by a character only below MaxText characters.
TextKeyAllowed(value, k, multiline) ==
  (k.name = "char" \/ (k.name = "return" /\ multiline)) => Len(value) < MaxText

\* String.prototype.trim() leaves a non-empty string.
IsBlankChar(c) == c \in {" ", "\n"}
\* A check that accepts any text that is not empty.
NonEmptyText(text) == Len(text) > 0
NonBlank(text) == \E i \in 1..Len(text) : ~IsBlankChar(text[i])

\* The two guards every loader starts with; "" when both pass.
LoadGuard(workspaceMessage, tokenMessage) ==
  IF context.workspace = NIL \/ context.workspaceName = NULL
  THEN workspaceMessage
  ELSE IF getJiraToken(context.workspaceName) = NULL THEN tokenMessage
  ELSE ""

\* `await refreshContext(); setStep('done')` inside the handler's try block.
RefreshThenDone ==
  IF getContext.raised
  THEN Failed(ConfigError) /\ UNCHANGED <<context, load>>
  ELSE /\ ContextSet(getContext.ctx)
       /\ v' = [v EXCEPT !.step = "done"]
       /\ sl' = NoList
       /\ job' = Idle

\* ---------------------------------------------------- views/start-work.tsx
\* The loadTickets effect settles, the tracker having answered the search
\* with `answer` (ok = FALSE: the request failed).
StartWorkLoaded(answer) ==
  /\ currentView = "start-work" /\ ~exited
  /\ load = "running"
  /\ load' = "idle"
  /\ UNCHANGED <<env, router, job>>
  /\ IF LoadGuard("No Jira workspace configured for this repository.",
                                   "Jira token not found. Please run setup again.") # ""
     THEN /\ v' = [v EXCEPT !.step = "error",
                     !.error = LoadGuard("No Jira workspace configured for this repository.",
                                   "Jira token not found. Please run setup again.")]
          /\ sl' = NoList
     ELSE IF answer.ok
     THEN /\ v' = [v EXCEPT !.step = "select-ticket",
                            !.tickets = sortTicketsByKey(Issues(answer.list))]
          /\ sl' = SelectListInit(sortTicketsByKey(Issues(answer.list)), TRUE)
     ELSE /\ v' = [v EXCEPT !.step = "error", !.error = CallError]
          /\ sl' = NoList

StartWorkLoad ==
  \E answer \in {[ok |-> FALSE, list |-> <<>>]}
                 \cup {[ok |-> TRUE, list |-> l] : l \in TicketLists} :
    StartWorkLoaded(answer)

\* A selection that names the branch by the slug alone.
StartWorkTicketSelectSlugOnly(item) ==
  /\ v' = [v EXCEPT !.selectedTicket = item,
                    !.branchName = slugify(item.summary, 50),
                    !.step = "confirm-branch"]
  /\ sl' = NoList
  /\ UNCHANGED <<currentView, load, job>>

\* handleTicketSelect(item)
StartWorkTicketSelect(item) ==
  /\ v' = [v EXCEPT !.selectedTicket = item,
                    !.branchName = generateBranchName(item.key, item.summary, 50),
                    !.step = "confirm-branch"]
  /\ sl' = NoList
  /\ UNCHANGED <<currentView, load, job>>

\* The cursor of the three-entry confirm lists of start-work and new-ticket:
\* up and down both run prev === 0 ? 1 : prev === 1 ? 2 : 0
ConfirmCursor3(index) == IF index = 0 THEN 1 ELSE IF index = 1 THEN 2 ELSE 0

\* handleCreateBranch(checkout) up to its first await.
StartWorkCreateBranch(checkout) ==
  IF v.selectedTicket = NIL THEN Stay
  ELSE /\ v' = [v EXCEPT !.step = "creating"]
       /\ job' = [pc |-> "branchExists", checkout |-> checkout]
       /\ UNCHANGED <<currentView, sl, load>>

\* StartWork's useInput, with the SelectList's while the step is select-ticket.
StartWorkInput(k) ==
  /\ currentView = "start-work" /\ ~exited
  /\ ListKeyAllowed(k)
  /\ UNCHANGED <<env, context, session>>
  /\ IF v.step = "select-ticket"
     THEN ListInput(v.tickets, k, StartWorkTicketSelect, navigate("main"))
     ELSE IF v.step = "confirm-branch"
     THEN IF k.name = "escape" THEN ToListStep("select-ticket", v.tickets, TRUE)
          ELSE IF k.name \in {"up", "down"}
          THEN /\ v' = [v EXCEPT !.confirmIndex = ConfirmCursor3(@)]
               /\ UNCHANGED <<currentView, sl, load, job>>
          ELSE IF k.name = "return"
          THEN IF v.confirmIndex = 0 THEN StartWorkCreateBranch(TRUE)
               ELSE IF v.confirmIndex = 1 THEN StartWorkCreateBranch(FALSE)
               ELSE ToListStep("select-ticket", v.tickets, TRUE)
          ELSE Stay
     ELSE IF v.step \in {"done", "error"} THEN TerminalInput(k)
     ELSE Stay

\* A transition block whose failure reaches the handler's catch block.
StartWorkTransitionStrict(ok) ==
  /\ UNCHANGED <<git, context, load>>
  /\ IF /\ context.workspace # NIL /\ context.workspaceName # NULL
        /\ getJiraToken(context.workspaceName) # NULL
        /\ ok
     THEN /\ jira' = JiraTransitioned(v.selectedTicket.key, "In Progress")
          /\ job' = [job EXCEPT !.pc = "refreshContext"]
          /\ UNCHANGED <<v, sl>>
     ELSE Failed(CallError) /\ UNCHANGED jira

\* The best-effort block of handleCreateBranch: the token lookup and
\* transitionIssue(key, 'In Progress'), which never rejects; `ok` says that the
\* credentials were read and the tracker accepted the transition.
StartWorkTransition(ok) ==
  /\ UNCHANGED <<git, context, load, v, sl>>
  /\ job' = [job EXCEPT !.pc = "refreshContext"]
  /\ jira' = IF /\ context.workspace # NIL /\ context.workspaceName # NULL
                /\ getJiraToken(context.workspaceName) # NULL
                /\ ok
             THEN JiraTransitioned(v.selectedTicket.key, "In Progress")
             ELSE jira

\* handleCreateBranch resumes after one of its awaits.
StartWorkJob ==
  /\ currentView = "start-work" /\ ~exited
  /\ job.pc # "idle"
  /\ UNCHANGED <<currentView, session, cfg, creds, remote>>
  /\ \E ok \in BOOLEAN :
     CASE job.pc = "branchExists" ->
            \* git.branchExists answers false when the listing fails
            /\ UNCHANGED <<git, jira, context, load>>
            /\ IF ok /\ v.branchName \in git.branches
               THEN Failed("Branch already exists.")
               ELSE /\ job' = [job EXCEPT !.pc = "createBranch"]
                    /\ UNCHANGED <<v, sl>>
       [] job.pc = "createBranch" ->
            \* configManager.load(), then git.createBranch(branchName, baseBranch)
            /\ UNCHANGED <<jira, context, load>>
            /\ IF ~ConfigLoads
               THEN Failed(ConfigError) /\ UNCHANGED git
               ELSE IF ok /\ GitCanCreate(v.branchName, cfg.baseBranch)
               THEN /\ git' = GitCreated(v.branchName)
                    /\ job' = [job EXCEPT !.pc = IF job.checkout THEN "checkoutBranch"
                                                 ELSE "transition"]
                    /\ UNCHANGED <<v, sl>>
               ELSE Failed(GitError) /\ UNCHANGED git
       [] job.pc = "checkoutBranch" ->
            /\ UNCHANGED <<jira, context, load>>
            /\ IF ok /\ GitCanCheckout(v.branchName)
               THEN /\ git' = GitCheckedOut(v.branchName)
                    /\ job' = [job EXCEPT !.pc = "transition"]
                    /\ UNCHANGED <<v, sl>>
               ELSE Failed(GitError) /\ UNCHANGED git
       [] job.pc = "transition" -> StartWorkTransition(ok)
       [] job.pc = "refreshContext" ->
            /\ UNCHANGED <<git, jira>>
            /\ RefreshThenDone

\* ---------------------------------------------------- views/new-ticket.tsx
\* Answers of the tracker: the project's issue types and its sprints.
IssueTypeLists == {<<"Task", "Bug">>}
Sprint(id, name, state) == [id |-> id, name |-> name, state |-> state]
SprintLists == {<<>>, <<Sprint(5, "S0", "future"), Sprint(6, "S1", "active")>>}
\* The sprint the tracker reports for a ticket it returns (none, or the active one).
SprintNames == {"null", "S1"}

IsActive(sprint) == sprint.state = "active"
\* active.sort(...) with the comparator that puts the sprint called `name` first
SortLinkedFirst(active, name) ==
  LET IsLinked(sprint) == sprint.name = name
      IsOther(sprint) == sprint.name # name
  IN  SelectSeq(active, IsLinked) \o SelectSeq(active, IsOther)

\* The loadIssueTypes effect settles.
NewTicketLoad ==
  /\ currentView = "new-ticket" /\ ~exited
  /\ load = "running"
  /\ load' = "idle"
  /\ UNCHANGED <<env, router, job>>
  /\ IF LoadGuard("No Jira workspace configured for this repository.",
                                   "Jira token not found. Please run setup again.") # ""
     THEN /\ v' = [v EXCEPT !.step = "error",
                     !.error = LoadGuard("No Jira workspace configured for this repository.",
                                   "Jira token not found. Please run setup again.")]
          /\ sl' = NoList
     ELSE \E typesOk \in BOOLEAN, types \in IssueTypeLists, sprints \in SprintLists,
             linkedSprint \in SprintNames :
            LET linkedTicket == IF context.linkedTicketId # NULL
                                THEN getIssue(context.linkedTicketId) ELSE NIL
                sprintName == IF linkedTicket # NIL THEN linkedSprint ELSE "null"
                active == SelectSeq(sprints, IsActive)
            IN  IF typesOk
                THEN /\ v' = [v EXCEPT
                          !.step = "select-type",
                          !.issueTypes = types,
                          !.linkedTicketSprintName =
                             IF sprintName # "null" THEN sprintName ELSE @,
                          !.activeSprints = IF sprintName # "null"
                                            THEN SortLinkedFirst(active, sprintName)
                                            ELSE active]
                     /\ sl' = SelectListInit(types, FALSE)
                ELSE /\ v' = [v EXCEPT !.step = "error", !.error = CallError]
                     /\ sl' = NoList

\* handleTypeSelect(item)
NewTicketTypeSelect(item) ==
  /\ v' = [v EXCEPT !.selectedType = item, !.step = "enter-title"]
  /\ sl' = NoList
  /\ UNCHANGED <<currentView, load, job>>

\* handleDescriptionSubmit()
handleDescriptionSubmit ==
  IF Len(v.activeSprints) > 0
  THEN /\ v' = [v EXCEPT !.selectedSprintId = v.activeSprints[1].id,
                         !.sprintIndex = 0, !.step = "select-sprint"]
       /\ UNCHANGED <<currentView, sl, load, job>>
  ELSE ToStep("confirm")

\* A confirm step that always goes back to the sprint selection.
NewTicketBeforeConfirmIsSprint == "select-sprint"

\* The step the confirm step goes back to.
NewTicketBeforeConfirm ==
  IF Len(v.activeSprints) > 0 THEN "select-sprint" ELSE "enter-description"

\* handleCreate(createBranch) up to its first await.
NewTicketCreate(createBranch) ==
  IF v.selectedType = "null" \/ context.workspace = NIL \/ context.workspaceName = NULL
  THEN Stay
  ELSE /\ v' = [v EXCEPT !.step = "creating"]
       /\ job' = [pc |-> "createIssue", createBranch |-> createBranch]
       /\ UNCHANGED <<currentView, sl, load>>

\* NewTicket's useInput, with the useInput of the SelectList or TextInput the
\* step renders.
NewTicketInput(k) ==
  /\ currentView = "new-ticket" /\ ~exited
  /\ v.step = "enter-title" => TextKeyAllowed(v.title, k, FALSE)
  /\ v.step = "enter-description" => TextKeyAllowed(v.description, k, TRUE)
  /\ UNCHANGED <<env, context, session>>
  /\ IF v.step = "select-type"
     THEN ListInput(v.issueTypes, k, NewTicketTypeSelect, navigate("main"))
     ELSE IF v.step = "enter-title"
     THEN IF k.name = "escape" THEN ToListStep("select-type", v.issueTypes, FALSE)
          ELSE IF k.name = "return"
          THEN IF NonBlank(v.title) THEN ToStep("enter-description") ELSE Stay
          ELSE /\ v' = [v EXCEPT !.title = TextEdit(@, k, FALSE)]
               /\ UNCHANGED <<currentView, sl, load, job>>
     ELSE IF v.step = "enter-description"
     THEN IF k.name = "escape" THEN ToStep("enter-title")
          ELSE IF k.name = "tab" THEN handleDescriptionSubmit
          ELSE /\ v' = [v EXCEPT !.description = TextEdit(@, k, TRUE)]
               /\ UNCHANGED <<currentView, sl, load, job>>
     ELSE IF v.step = "select-sprint"
     THEN IF k.name = "escape" THEN ToStep("enter-description")
          ELSE IF k.name = "up"
          THEN /\ v' = [v EXCEPT !.sprintIndex =
                          IF @ = 0 THEN Len(v.activeSprints) ELSE @ - 1]
               /\ UNCHANGED <<currentView, sl, load, job>>
          ELSE IF k.name = "down"
          THEN /\ v' = [v EXCEPT !.sprintIndex =
                          IF @ = Len(v.activeSprints) THEN 0 ELSE @ + 1]
               /\ UNCHANGED <<currentView, sl, load, job>>
          ELSE IF k.name = "return"
          THEN /\ v' = [v EXCEPT !.selectedSprintId =
                          IF v.sprintIndex < Len(v.activeSprints)
                          THEN v.activeSprints[v.sprintIndex + 1].id ELSE 0,
                          !.step = "confirm"]
               /\ UNCHANGED <<currentView, sl, load, job>>
          ELSE Stay
     ELSE IF v.step = "confirm"
     THEN IF k.name = "escape" THEN ToStep(NewTicketBeforeConfirm)
          ELSE IF k.name \in {"up", "down"}
          THEN /\ v' = [v EXCEPT !.confirmIndex = ConfirmCursor3(@)]
               /\ UNCHANGED <<currentView, sl, load, job>>
          ELSE IF k.name = "return"
          THEN IF v.confirmIndex = 0 THEN NewTicketCreate(TRUE)
               ELSE IF v.confirmIndex = 1 THEN NewTicketCreate(FALSE)
               ELSE ToStep(NewTicketBeforeConfirm)
          ELSE Stay
     ELSE IF v.step \in {"done", "error"} THEN TerminalInput(k)
     ELSE Stay

\* JiraClient.createIssue: the tracker after the POST created the issue.
JiraCreated(summary, issueType) ==
  [issues |-> (CreatedKey(jira.created + 1) :>
                 [summary |-> summary, issueType |-> issueType, status |-> "To Do"])
              @@ jira.issues,
   created |-> jira.created + 1,
   moved |-> jira.moved]

\* Outcomes of createIssue: the POST fails; the issue is created and read back
\* (its best-effort sprint assignment leaves no trace in the view); the issue is
\* created but reading it back fails.
CreateOutcomes == {"rejected", "created", "created-unread"}

\* handleCreate resumes after one of its awaits.
NewTicketJob ==
  /\ currentView = "new-ticket" /\ ~exited
  /\ job.pc # "idle"
  /\ UNCHANGED <<currentView, session, cfg, creds, remote>>
  /\ CASE job.pc = "createIssue" ->
            /\ UNCHANGED <<git, context, load>>
            /\ IF getJiraToken(context.workspaceName) = NULL
               THEN Failed("Jira token not found.") /\ UNCHANGED jira
               ELSE \E outcome \in CreateOutcomes :
                      IF outcome = "rejected" \/ jira.created >= MaxCreated
                      THEN Failed(CallError) /\ UNCHANGED jira
                      ELSE /\ jira' = JiraCreated(v.title, v.selectedType)
                           /\ IF outcome = "created-unread"
                              THEN Failed(CallError)
                              ELSE /\ v' = [v EXCEPT !.createdTicket =
                                             [key |-> CreatedKey(jira.created + 1)]
                                             @@ jira'.issues[CreatedKey(jira.created + 1)]]
                                   /\ job' = [job EXCEPT !.pc =
                                               IF job.createBranch THEN "createBranch"
                                               ELSE "refreshContext"]
                                   /\ UNCHANGED sl
       [] job.pc = "createBranch" ->
            /\ UNCHANGED <<jira, context, load>>
            /\ \E ok \in BOOLEAN :
               IF ~ConfigLoads
               THEN Failed(ConfigError) /\ UNCHANGED git
               ELSE LET branch == generateBranchName(v.createdTicket.key, v.title,
                                                     cfg.slugMaxLength)
                    IN  IF ok /\ GitCanCreate(branch, cfg.baseBranch)
                        THEN /\ git' = GitCreated(branch)
                             /\ v' = [v EXCEPT !.branchName = branch]
                             /\ job' = [job EXCEPT !.pc = "checkoutBranch"]
                             /\ UNCHANGED sl
                        ELSE /\ v' = [v EXCEPT !.branchName = branch,
                                               !.step = "error", !.error = GitError]
                             /\ sl' = NoList /\ job' = Idle
                             /\ UNCHANGED git
       [] job.pc = "checkoutBranch" ->
            /\ UNCHANGED <<jira, context, load>>
            /\ \E ok \in BOOLEAN :
               IF ok /\ GitCanCheckout(v.branchName)
               THEN /\ git' = GitCheckedOut(v.branchName)
                    /\ job' = [job EXCEPT !.pc = "refreshContext"]
                    /\ UNCHANGED <<v, sl>>
               ELSE Failed(GitError) /\ UNCHANGED git
       [] job.pc = "refreshContext" ->
            /\ UNCHANGED <<git, jira>>
            /\ RefreshThenDone

\* ------------------------------------------------- views/link-branch.tsx
\* The loadTickets effect settles.
LinkBranchLoad ==
  /\ currentView = "link-branch" /\ ~exited
  /\ load = "running"
  /\ load' = "idle"
  /\ UNCHANGED <<env, router, job>>
  /\ IF LoadGuard("No Jira workspace configured.", "Jira token not found.") # ""
     THEN /\ v' = [v EXCEPT !.step = "error",
                     !.error = LoadGuard("No Jira workspace configured.",
                                         "Jira token not found.")]
          /\ sl' = NoList
     ELSE \E answer \in {[ok |-> FALSE, list |-> <<>>]}
                          \cup {[ok |-> TRUE, list |-> l] : l \in TicketLists} :
            IF answer.ok
            THEN /\ v' = [v EXCEPT !.step = "select-ticket",
                                   !.tickets = Issues(answer.list)]
                 /\ sl' = SelectListInit(Issues(answer.list), TRUE)
            ELSE /\ v' = [v EXCEPT !.step = "error", !.error = CallError]
                 /\ sl' = NoList

\* handleTicketSelect(item)
LinkBranchTicketSelect(item) ==
  LET description == extractBranchDescription(
                       IF context.currentBranch # NULL THEN context.currentBranch
                       ELSE <<>>)
      newName == IF description # <<>> THEN item.key \o <<"/">> \o description
                 ELSE generateBranchName(item.key, item.summary, 50)
  IN  /\ v' = [v EXCEPT !.selectedTicket = item, !.newBranchName = newName,
                        !.step = "confirm-rename"]
      /\ sl' = NoList
      /\ UNCHANGED <<currentView, load, job>>

\* handleLink(rename) up to its first await.
handleLink(rename) ==
  IF v.selectedTicket = NIL \/ context.currentBranch = NULL THEN Stay
  ELSE /\ v' = [v EXCEPT !.step = "linking"]
       /\ job' = [pc |-> IF rename /\ v.newBranchName # context.currentBranch
                         THEN "renameBranch" ELSE "refreshContext"]
       /\ UNCHANGED <<currentView, sl, load>>

\* LinkBranch's useInput, with the SelectList's while the step is select-ticket.
LinkBranchInput(k) ==
  /\ currentView = "link-branch" /\ ~exited
  /\ ListKeyAllowed(k)
  /\ UNCHANGED <<env, context, session>>
  /\ IF v.step = "select-ticket"
     THEN ListInput(v.tickets, k, LinkBranchTicketSelect, navigate("main"))
     ELSE IF v.step = "confirm-rename"
     THEN IF k.name = "escape" THEN ToListStep("select-ticket", v.tickets, TRUE)
          ELSE IF k.name \in {"up", "down"}
          THEN /\ v' = [v EXCEPT !.confirmIndex = IF @ = 0 THEN 1 ELSE 0]
               /\ UNCHANGED <<currentView, sl, load, job>>
          ELSE IF k.name = "return" THEN handleLink(v.confirmIndex = 0)
          ELSE Stay
     ELSE IF v.step \in {"done", "error"} THEN TerminalInput(k)
     ELSE Stay

\* handleLink resumes after one of its awaits.
LinkBranchJob ==
  /\ currentView = "link-branch" /\ ~exited
  /\ job.pc # "idle"
  /\ UNCHANGED <<currentView, session, cfg, creds, remote, jira>>
  /\ CASE job.pc = "renameBranch" ->
            /\ UNCHANGED <<context, load>>
            /\ \E ok \in BOOLEAN :
               IF ok /\ GitCanRename(context.currentBranch, v.newBranchName)
               THEN /\ git' = GitRenamed(context.currentBranch, v.newBranchName)
                    /\ job' = [job EXCEPT !.pc = "refreshContext"]
                    /\ UNCHANGED <<v, sl>>
               ELSE Failed(GitError) /\ UNCHANGED git
       [] job.pc = "refreshContext" ->
            /\ UNCHANGED git
            /\ RefreshThenDone

\* ----------------------------------------------- views/switch-branch.tsx
PAGE_SIZE == 20

\* Order of the branches' last commits (a larger number is more recent);
\* branches made during the run are the most recent.
CommitDate(name) ==
  CASE name = MainBranch -> 1
    [] name = FeatBranch -> 2
    [] name = LinkedBranch -> 3
    [] OTHER -> 4

\* The sort of loadBranches without the current branch: most recent first.
RECURSIVE SortByDate(_)
SortByDate(names) ==
  IF names = {} THEN <<>>
  ELSE LET first == CHOOSE x \in names : \A y \in names : CommitDate(y) <= CommitDate(x)
       IN  <<first>> \o SortByDate(names \ {first})

\* getPRInfoForBranches for one branch: null when gh fails or lists no PR.
PRStatusOf(name, ghOk) == IF ghOk /\ name \in remote.prs THEN "open" ELSE "null"

\* One BranchWithTicket; `failed` are the ticket ids whose lookup rejected.
BranchWithTicket(name, ghOk, withTickets, failed) ==
  LET ticketId == extractTicketId(name)
  IN  [name |-> name, current |-> name = git.current, ticketId |-> ticketId,
       ticket |-> IF withTickets /\ ticketId # NULL /\ ticketId \notin failed
                  THEN getIssue(ticketId) ELSE NIL,
       prInfo |-> PRStatusOf(name, ghOk)]

\* Ticket ids found in the names of the local branches.
BranchTicketIds == {extractTicketId(b) : b \in git.branches} \ {NULL}

\* loadBranches: `listOk` says that git listed the branches, `ghOk` that gh
\* listed the pull requests, `failed` are the ticket ids whose lookup rejected.
loadBranches(listOk, ghOk, failed) ==
  IF ~listOk \/ ~git.isRepo
  THEN v' = [v EXCEPT !.step = "error", !.error = GitError]
  ELSE LET withTickets == /\ context.workspace # NIL
                          /\ context.workspaceName # NULL
                          /\ getJiraToken(context.workspaceName) # NULL
           order == (IF git.current \in git.branches THEN <<git.current>> ELSE <<>>)
                    \o SortByDate(git.branches \ {git.current})
       IN  v' = [v EXCEPT
                  !.step = "list",
                  !.branches = [i \in 1..Len(order) |->
                     BranchWithTicket(order[i], ghOk, withTickets, failed)]]

\* The loadBranches effect settles.
SwitchBranchLoad ==
  /\ currentView = "switch-branch" /\ ~exited
  /\ load = "running"
  /\ load' = "idle"
  /\ UNCHANGED <<env, router, job, sl>>
  /\ \E listOk \in BOOLEAN, ghOk \in BOOLEAN, failed \in SUBSET BranchTicketIds :
       loadBranches(listOk, ghOk, failed)

\* const visibleBranches = branches.slice(startIndex, startIndex + PAGE_SIZE)
visibleBranches ==
  LET startIndex == v.currentPage * PAGE_SIZE
      n == Len(v.branches)
      last == IF startIndex + PAGE_SIZE < n THEN startIndex + PAGE_SIZE ELSE n
  IN  SubSeq(v.branches, startIndex + 1, last)
\* Math.ceil(branches.length / PAGE_SIZE)
totalPages == (Len(v.branches) + PAGE_SIZE - 1) \div PAGE_SIZE

\* handleBranchSelect(branch) up to its first await.
handleBranchSelect(branch) ==
  IF branch.current THEN Stay
  ELSE /\ v' = [v EXCEPT !.selectedBranch = branch.name, !.step = "switching"]
       /\ job' = [pc |-> "checkoutBranch"]
       /\ UNCHANGED <<currentView, sl, load>>

\* SwitchBranch's useInput.
SwitchBranchInput(k) ==
  /\ currentView = "switch-branch" /\ ~exited
  /\ UNCHANGED <<env, context, session>>
  /\ IF v.step = "list"
     THEN IF k.name = "escape" THEN navigate("main")
          ELSE IF k.name = "up"
          THEN /\ v' = [v EXCEPT !.selectedIndex = CursorUp(@, Len(visibleBranches))]
               /\ UNCHANGED <<currentView, sl, load, job>>
          ELSE IF k.name = "down"
          THEN /\ v' = [v EXCEPT !.selectedIndex = CursorDown(@, Len(visibleBranches))]
               /\ UNCHANGED <<currentView, sl, load, job>>
          ELSE IF k.name = "left" /\ totalPages > 1
          THEN /\ v' = [v EXCEPT !.currentPage = CursorUp(@, totalPages),
                                 !.selectedIndex = 0]
               /\ UNCHANGED <<currentView, sl, load, job>>
          ELSE IF k.name = "right" /\ totalPages > 1
          THEN /\ v' = [v EXCEPT !.currentPage = CursorDown(@, totalPages),
                                 !.selectedIndex = 0]
               /\ UNCHANGED <<currentView, sl, load, job>>
          ELSE IF k.name = "return" /\ v.selectedIndex \in 0..(Len(visibleBranches) - 1)
          THEN handleBranchSelect(visibleBranches[v.selectedIndex + 1])
          ELSE Stay
     ELSE IF v.step \in {"done", "error"} THEN TerminalInput(k)
     ELSE Stay

\* handleBranchSelect resumes after one of its awaits.
SwitchBranchJob ==
  /\ currentView = "switch-branch" /\ ~exited
  /\ job.pc # "idle"
  /\ UNCHANGED <<currentView, session, cfg, creds, remote, jira>>
  /\ CASE job.pc = "checkoutBranch" ->
            /\ UNCHANGED <<context, load>>
            /\ \E ok \in BOOLEAN :
               IF ok /\ GitCanCheckout(v.selectedBranch)
               THEN /\ git' = GitCheckedOut(v.selectedBranch)
                    /\ job' = [job EXCEPT !.pc = "refreshContext"]
                    /\ UNCHANGED <<v, sl>>
               ELSE Failed(GitError) /\ UNCHANGED git
       [] job.pc = "refreshContext" ->
            /\ UNCHANGED git
            /\ RefreshThenDone

\* ------------------------------------ views/create-ticket-from-branch.tsx
\* The prefixes of /^(feature|bugfix|fix|hotfix|release|chore)\//
BranchPrefixes ==
  {<<"f", "e", "a", "t", "u", "r", "e", "/">>, <<"b", "u", "g", "f", "i", "x", "/">>,
   <<"f", "i", "x", "/">>, <<"h", "o", "t", "f", "i", "x", "/">>,
   <<"r", "e", "l", "e", "a", "s", "e", "/">>, <<"c", "h", "o", "r", "e", "/">>}

IsPrefix(p, s) == Len(p) <= Len(s) /\ SubSeq(s, 1, Len(p)) = p

\* .replace(/^(feature|bugfix|fix|hotfix|release|chore)\//, '')
StripBranchPrefix(s) ==
  IF \E p \in BranchPrefixes : IsPrefix(p, s)
  THEN LET p == CHOOSE q \in BranchPrefixes : IsPrefix(q, s)
       IN  SubSeq(s, Len(p) + 1, Len(s))
  ELSE s

\* .replace(/^[A-Z]+-\d+[/-]?/, '')
StripTicketToken(s) ==
  LET n == RunLength(s, 1, UpperChars)
      d == RunLength(s, n + 2, DigitChars)
      matched == n > 0 /\ n + 1 <= Len(s) /\ s[n + 1] = "-" /\ d > 0
      end == n + 1 + d
      sep == IF end + 1 <= Len(s) /\ s[end + 1] \in {"/", "-"} THEN 1 ELSE 0
  IN  IF matched THEN SubSeq(s, end + sep + 1, Len(s)) ELSE s

branchNameToTitle(branchName) ==
  LET name == StripTicketToken(StripBranchPrefix(branchName))
      spaced == [i \in 1..Len(name) |-> IF name[i] \in {"-", "_"} THEN " " ELSE name[i]]
      capitalized == [i \in 1..Len(spaced) |->
                        IF i = 1 \/ spaced[i - 1] = " " THEN toUpperCase(spaced[i])
                        ELSE spaced[i]]
  IN  IF capitalized # <<>> THEN capitalized ELSE branchName

\* sprintList.findIndex((s) => s.state === 'active'), or -1
FirstActiveIndex(sprints) ==
  IF \E i \in 1..Len(sprints) : IsActive(sprints[i])
  THEN (CHOOSE i \in 1..Len(sprints) :
          IsActive(sprints[i]) /\ \A j \in 1..(i - 1) : ~IsActive(sprints[j])) - 1
  ELSE -1

\* git.getCommitsSince(base): the messages of the commits base lacks, [] when
\* the log fails.
CommitMessages(base, logOk) ==
  IF logOk /\ getCommitsAhead(base) > 0 THEN <<"c1">> ELSE <<>>
\* `Changes:\n${commitList}`, one unit of text
ChangesText == <<"Changes:\n- c1">>

\* loadData after its guards: the view once Promise.all has settled. `fetched`
\* says that issue types and user were both fetched, `sprintList` is what
\* getActiveSprints answered ([] when it failed), `logOk` that git listed the
\* commits.
CreateTicketFromBranchLoaded(fetched, types, sprintList, logOk) ==
  IF ~fetched
  THEN [v EXCEPT !.jiraClient = TRUE, !.step = "error", !.error = CallError]
  ELSE IF ~ConfigLoads
  THEN [v EXCEPT
         !.jiraClient = TRUE, !.issueTypes = types, !.currentUser = "user",
         !.sprints = sprintList,
         !.selectedSprintIndex = IF FirstActiveIndex(sprintList) >= 0
                                 THEN FirstActiveIndex(sprintList) ELSE @,
         !.step = "error", !.error = ConfigError]
  ELSE [v EXCEPT
         !.jiraClient = TRUE, !.issueTypes = types, !.currentUser = "user",
         !.sprints = sprintList,
         !.selectedSprintIndex = IF FirstActiveIndex(sprintList) >= 0
                                 THEN FirstActiveIndex(sprintList) ELSE @,
         !.commitMessages = CommitMessages(cfg.baseBranch, logOk),
         !.title = branchNameToTitle(IF context.currentBranch # NULL
                                     THEN context.currentBranch ELSE <<>>),
         !.description = IF CommitMessages(cfg.baseBranch, logOk) # <<>>
                         THEN ChangesText ELSE @,
         !.dueDate = NextWeek,
         !.step = "select-type"]

\* The loadData effect settles.
CreateTicketFromBranchLoad ==
  /\ currentView = "create-ticket-from-branch" /\ ~exited
  /\ load = "running"
  /\ load' = "idle"
  /\ UNCHANGED <<env, router, job, sl>>
  /\ IF LoadGuard("No Jira workspace configured.", "Jira token not found.") # ""
     THEN v' = [v EXCEPT !.step = "error",
                  !.error = LoadGuard("No Jira workspace configured.",
                                      "Jira token not found.")]
     ELSE \E fetched \in BOOLEAN, types \in IssueTypeLists, sprintList \in SprintLists,
             logOk \in BOOLEAN :
            v' = CreateTicketFromBranchLoaded(fetched, types, sprintList, logOk)

\* handleCreate() up to its first await.
CreateTicketFromBranchCreate ==
  IF ~v.jiraClient \/ context.workspace = NIL \/ v.currentUser = "null" THEN Stay
  ELSE /\ v' = [v EXCEPT !.step = "creating"]
       /\ job' = [pc |-> "createIssue"]
       /\ UNCHANGED <<currentView, sl, load>>

\* The text field the step edits, "" for the steps without a TextInput.
EditedField ==
  CASE v.step = "edit-title" -> "title"
    [] v.step = "edit-description" -> "description"
    [] v.step = "edit-start-date" -> "startDate"
    [] v.step = "edit-due-date" -> "dueDate"
    [] OTHER -> ""

\* A back target that never passes through the sprint list.
BeforeEditSkippingSprints ==
  CASE v.step = "edit-title" -> "select-type"
    [] v.step = "edit-description" -> "edit-title"
    [] v.step = "edit-start-date" -> "edit-description"
    [] OTHER -> "edit-start-date"

\* Where the TextInput of the step goes on submit and on back.
AfterEdit ==
  CASE v.step = "edit-title" -> "edit-description"
    [] v.step = "edit-description" ->
         IF Len(v.sprints) > 0 THEN "select-sprint" ELSE "edit-start-date"
    [] v.step = "edit-start-date" -> "edit-due-date"
    [] OTHER -> "confirm"
BeforeEdit ==
  CASE v.step = "edit-title" -> "select-type"
    [] v.step = "edit-description" -> "edit-title"
    [] v.step = "edit-start-date" ->
         IF Len(v.sprints) > 0 THEN "select-sprint" ELSE "edit-description"
    [] OTHER -> "edit-start-date"

\* CreateTicketFromBranch's useInput, with the TextInput's in the edit steps.
CreateTicketFromBranchInput(k) ==
  /\ currentView = "create-ticket-from-branch" /\ ~exited
  /\ EditedField # "" => TextKeyAllowed(v[EditedField], k, v.step = "edit-description")
  /\ UNCHANGED <<env, context, session>>
  /\ IF v.step = "select-type"
     THEN IF k.name = "escape" THEN navigate("main")
          ELSE IF k.name = "up"
          THEN /\ v' = [v EXCEPT !.selectedTypeIndex = CursorUp(@, Len(v.issueTypes))]
               /\ UNCHANGED <<currentView, sl, load, job>>
          ELSE IF k.name = "down"
          THEN /\ v' = [v EXCEPT !.selectedTypeIndex = CursorDown(@, Len(v.issueTypes))]
               /\ UNCHANGED <<currentView, sl, load, job>>
          ELSE IF k.name = "return" THEN ToStep("edit-title")
          ELSE Stay
     ELSE IF EditedField # ""
     THEN LET multiline == v.step = "edit-description"
          IN  IF k.name = "escape" THEN ToStep(BeforeEdit)
              ELSE IF (k.name = "return" /\ ~multiline) \/ (k.name = "tab" /\ multiline)
              THEN ToStep(AfterEdit)
              ELSE /\ v' = [v EXCEPT ![EditedField] = TextEdit(@, k, multiline)]
                   /\ UNCHANGED <<currentView, sl, load, job>>
     ELSE IF v.step = "select-sprint"
     THEN IF k.name = "escape" THEN ToStep("edit-description")
          ELSE IF k.name = "up"
          THEN /\ v' = [v EXCEPT !.selectedSprintIndex = CursorUp(@, Len(v.sprints))]
               /\ UNCHANGED <<currentView, sl, load, job>>
          ELSE IF k.name = "down"
          THEN /\ v' = [v EXCEPT !.selectedSprintIndex = CursorDown(@, Len(v.sprints))]
               /\ UNCHANGED <<currentView, sl, load, job>>
          ELSE IF k.name = "return" THEN ToStep("edit-start-date")
          ELSE Stay
     ELSE IF v.step = "confirm"
     THEN IF k.name = "escape" THEN ToStep("edit-due-date")
          ELSE IF k.name \in {"up", "down"}
          THEN /\ v' = [v EXCEPT !.confirmIndex = IF @ = 0 THEN 1 ELSE 0]
               /\ UNCHANGED <<currentView, sl, load, job>>
          ELSE IF k.name = "return"
          THEN IF v.confirmIndex = 0 THEN CreateTicketFromBranchCreate
               ELSE navigate("main")
          ELSE Stay
     ELSE IF v.step \in {"done", "error"} THEN TerminalInput(k)
     ELSE Stay

\* handleCreate resumes after one of its awaits.
CreateTicketFromBranchJob ==
  /\ currentView = "create-ticket-from-branch" /\ ~exited
  /\ job.pc # "idle"
  /\ UNCHANGED <<currentView, session, cfg, creds, remote>>
  /\ CASE job.pc = "createIssue" ->
            /\ UNCHANGED <<git, context, load, sl>>
            /\ \E outcome \in CreateOutcomes :
                 IF outcome = "rejected" \/ jira.created >= MaxCreated
                 THEN Failed(CallError) /\ UNCHANGED jira
                 ELSE /\ jira' = JiraCreated(v.title,
                                   IF v.selectedTypeIndex \in 0..(Len(v.issueTypes) - 1)
                                   THEN v.issueTypes[v.selectedTypeIndex + 1] ELSE "Task")
                      /\ IF outcome = "created-unread"
                         THEN Failed(CallError)
                         ELSE /\ v' = [v EXCEPT !.createdTicketKey =
                                                   CreatedKey(jira.created + 1)]
                              /\ job' = [job EXCEPT !.pc = "renameBranch"]
       [] job.pc = "renameBranch" ->
            \* configManager.load(), then the rename, whose failure is swallowed
            /\ UNCHANGED <<jira, context, load>>
            /\ \E ok \in BOOLEAN :
               IF ~ConfigLoads
               THEN Failed(ConfigError) /\ UNCHANGED git
               ELSE LET newBranchName == generateBranchName(v.createdTicketKey, v.title,
                                                            cfg.slugMaxLength)
                    IN  /\ job' = [job EXCEPT !.pc = "refreshContext"]
                        /\ UNCHANGED sl
                        /\ IF ok /\ context.currentBranch # NULL
                                 /\ GitCanRename(context.currentBranch, newBranchName)
                           THEN /\ git' = GitRenamed(context.currentBranch, newBranchName)
                                /\ v' = [v EXCEPT !.createdBranchName = newBranchName]
                           ELSE /\ UNCHANGED git
                                /\ v' = [v EXCEPT !.createdBranchName =
                                           IF context.currentBranch # NULL
                                           THEN context.currentBranch ELSE <<>>]
       [] job.pc = "refreshContext" ->
            /\ UNCHANGED <<git, jira>>
            /\ RefreshThenDone

\* --------------------------------------------------- views/create-pr.tsx
\* Answers of JiraClient.getIssue: the issue, null (404), or a rejection.
LookupOutcomes == {"found", "missing", "rejected"}

\* `${ticketData.key}: ${ticketData.summary}`
PRTitle(ticket) == ticket.key \o <<":", " ">> \o ticket.summary
\* The pre-filled body, one unit of text.
PRBody == <<"## Jira Ticket ... ## Test Plan">>

\* A check that trusts a failed `git status -sb`.
BranchNeedsPushUnlessFailed(statusOk) == statusOk /\ git.current \notin remote.pushed

\* `git status -sb` shows no upstream or "ahead", or fails.
BranchNeedsPush(statusOk) == ~statusOk \/ git.current \notin remote.pushed

\* The loadData effect settles.
CreatePRLoad ==
  /\ currentView = "create-pr" /\ ~exited
  /\ load = "running"
  /\ load' = "idle"
  /\ UNCHANGED <<env, router, job, sl>>
  /\ IF context.workspace = NIL \/ context.workspaceName = NULL
        \/ context.linkedTicketId = NULL
     THEN v' = [v EXCEPT !.step = "error", !.error = "No linked ticket found."]
     ELSE IF getJiraToken(context.workspaceName) = NULL
     THEN v' = [v EXCEPT !.step = "error", !.error = "Jira token not found."]
     ELSE \E outcome \in LookupOutcomes, statusOk \in BOOLEAN :
            IF outcome = "rejected"
            THEN v' = [v EXCEPT !.step = "error", !.error = CallError]
            ELSE IF outcome = "missing" \/ getIssue(context.linkedTicketId) = NIL
            THEN v' = [v EXCEPT !.step = "error", !.error = "Ticket not found."]
            ELSE IF ~ConfigLoads
            THEN v' = [v EXCEPT !.ticket = getIssue(context.linkedTicketId),
                                !.jiraUrl = "url",
                                !.step = "error", !.error = ConfigError]
            ELSE v' = [v EXCEPT
                   !.ticket = getIssue(context.linkedTicketId),
                   !.jiraUrl = "url",
                   !.baseBranch = cfg.baseBranch,
                   !.needsPush = IF BranchNeedsPush(statusOk) THEN TRUE ELSE @,
                   !.title = PRTitle(getIssue(context.linkedTicketId)),
                   !.body = PRBody,
                   !.step = IF BranchNeedsPush(statusOk) THEN "push-needed"
                            ELSE "edit-title"]

\* Outcomes of the push of handlePush / handleCreate: the first push succeeds;
\* it fails with "already exists" (or "set up to track") and the push without
\* -u succeeds or fails; it fails with "Everything up-to-date"; it fails
\* otherwise.
PushOutcomes == {"pushed", "retry-pushed", "retry-failed", "up-to-date", "failed"}

\* The remote after a push of `branch` that succeeded.
Pushed(branch) == [remote EXCEPT !.pushed = @ \cup {branch}]

\* handlePush() up to its first await.
handlePush ==
  /\ v' = [v EXCEPT !.step = "pushing"]
  /\ job' = [pc |-> "handlePush"]
  /\ UNCHANGED <<currentView, sl, load>>

\* handleCreate going straight to the pull-request creation.
CreatePRCreateUnpushed ==
  IF v.ticket = NIL THEN Stay
  ELSE /\ v' = [v EXCEPT !.step = "creating"]
       /\ job' = [pc |-> "prCreate"]
       /\ UNCHANGED <<currentView, sl, load>>

\* handleCreate() up to its first await.
CreatePRCreate ==
  IF v.ticket = NIL THEN Stay
  ELSE /\ v' = [v EXCEPT !.step = "creating"]
       /\ job' = [pc |-> "push"]
       /\ UNCHANGED <<currentView, sl, load>>

\* Binary choice lists: up and down both flip the cursor.
Flip(index) == IF index = 0 THEN 1 ELSE 0

\* CreatePR's useInput, with the TextInput's in the edit steps.
CreatePRInput(k) ==
  /\ currentView = "create-pr" /\ ~exited
  /\ v.step = "edit-title" => TextKeyAllowed(v.title, k, FALSE)
  /\ v.step = "edit-body" => TextKeyAllowed(v.body, k, TRUE)
  /\ UNCHANGED <<env, context, session>>
  /\ IF v.step = "push-needed"
     THEN IF k.name = "escape" THEN navigate("main")
          ELSE IF k.name \in {"up", "down"}
          THEN /\ v' = [v EXCEPT !.pushIndex = Flip(@)]
               /\ UNCHANGED <<currentView, sl, load, job>>
          ELSE IF k.name = "return"
          THEN IF v.pushIndex = 0 THEN handlePush ELSE navigate("main")
          ELSE Stay
     ELSE IF v.step = "edit-title"
     THEN IF k.name = "escape" THEN navigate("main")
          ELSE IF k.name = "return" THEN ToStep("edit-body")
          ELSE /\ v' = [v EXCEPT !.title = TextEdit(@, k, FALSE)]
               /\ UNCHANGED <<currentView, sl, load, job>>
     ELSE IF v.step = "edit-body"
     THEN IF k.name = "escape" THEN ToStep("edit-title")
          ELSE IF k.name = "tab" THEN ToStep("confirm")
          ELSE /\ v' = [v EXCEPT !.body = TextEdit(@, k, TRUE)]
               /\ UNCHANGED <<currentView, sl, load, job>>
     ELSE IF v.step = "confirm"
     THEN IF k.name = "escape" THEN ToStep("edit-body")
          ELSE IF k.name \in {"up", "down"}
          THEN /\ v' = [v EXCEPT !.confirmIndex = Flip(@)]
               /\ UNCHANGED <<currentView, sl, load, job>>
          ELSE IF k.name = "return"
          THEN IF v.confirmIndex = 0 THEN CreatePRCreate ELSE navigate("main")
          ELSE Stay
     ELSE IF v.step = "done"
     THEN IF k.name = "escape" THEN navigate("main")
          ELSE IF k.name \in {"up", "down"}
          THEN /\ v' = [v EXCEPT !.doneIndex = Flip(@)]
               /\ UNCHANGED <<currentView, sl, load, job>>
          ELSE IF k.name = "return"
          THEN IF v.doneIndex = 0 THEN navigate("update-ticket-status")
               ELSE navigate("main")
          ELSE Stay
     ELSE IF v.step = "error" THEN TerminalInput(k)
     ELSE Stay

\* handlePush / handleCreate resume after one of their awaits.
CreatePRJob ==
  /\ currentView = "create-pr" /\ ~exited
  /\ job.pc # "idle"
  /\ UNCHANGED <<currentView, context, session, git, cfg, creds, jira, load>>
  /\ CASE job.pc = "handlePush" ->
            \E outcome \in PushOutcomes \ {"up-to-date"} :
              IF outcome \in {"pushed", "retry-pushed"}
              THEN /\ remote' = Pushed(context.currentBranch)
                   /\ v' = [v EXCEPT !.needsPush = FALSE, !.step = "edit-title"]
                   /\ job' = Idle
                   /\ UNCHANGED sl
              ELSE Failed(GitError) /\ UNCHANGED remote
       [] job.pc = "push" ->
            \E outcome \in PushOutcomes :
              IF outcome \in {"pushed", "retry-pushed"}
              THEN /\ remote' = Pushed(context.currentBranch)
                   /\ job' = [job EXCEPT !.pc = "prCreate"]
                   /\ UNCHANGED <<v, sl>>
              ELSE IF outcome = "up-to-date"
              THEN /\ job' = [job EXCEPT !.pc = "prCreate"]
                   /\ UNCHANGED <<v, sl, remote>>
              ELSE /\ Failed(IF outcome = "failed" THEN "Failed to push branch: git failed"
                             ELSE GitError)
                   /\ UNCHANGED remote
       [] job.pc = "prCreate" ->
            \* gh pr create for the checked-out branch
            \E ok \in BOOLEAN :
              IF git.current \in remote.prs
              THEN /\ Failed("A pull request already exists for this branch.")
                   /\ UNCHANGED remote
              ELSE IF ok /\ git.current \in remote.pushed
              THEN /\ remote' = [remote EXCEPT !.prs = @ \cup {git.current}]
                   /\ v' = [v EXCEPT !.prUrl = "url", !.step = "done"]
                   /\ job' = Idle
                   /\ UNCHANGED sl
              ELSE Failed(CallError) /\ UNCHANGED remote

\* ----------------------------------------- views/update-ticket-status.tsx
Transition(id, toStatus) == [id |-> id, name |-> toStatus, toStatus |-> toStatus]
\* The workflow of the tracker: the transitions a ticket in `status` offers.
Workflow(status) ==
  CASE status = "To Do" -> <<Transition("21", "In Progress"), Transition("31", "Done")>>
    [] status = "In Progress" -> <<Transition("11", "To Do"), Transition("31", "Done")>>
    [] OTHER -> <<Transition("11", "To Do")>>

\* JiraClient.getAvailableTransitions: [] when the request fails.
getAvailableTransitions(ticketId, ok) ==
  IF ok /\ ticketId \in DOMAIN jira.issues THEN Workflow(jira.issues[ticketId].status)
  ELSE <<>>

\* The status the tracker's transition `id` leads to from the ticket's status,
\* "" when the ticket does not offer it.
TransitionTarget(ticketId, id) ==
  LET offered == getAvailableTransitions(ticketId, TRUE)
  IN  IF \E i \in 1..Len(offered) : offered[i].id = id
      THEN offered[CHOOSE i \in 1..Len(offered) : offered[i].id = id].toStatus
      ELSE ""

\* The loadData effect settles.
UpdateTicketStatusLoad ==
  /\ currentView = "update-ticket-status" /\ ~exited
  /\ load = "running"
  /\ load' = "idle"
  /\ UNCHANGED <<env, router, job, sl>>
  /\ IF context.workspace = NIL \/ context.workspaceName = NULL
        \/ context.linkedTicketId = NULL
     THEN v' = [v EXCEPT !.step = "error", !.error = "No linked ticket found."]
     ELSE IF getJiraToken(context.workspaceName) = NULL
     THEN v' = [v EXCEPT !.step = "error", !.error = "Jira token not found."]
     ELSE \E outcome \in LookupOutcomes, transitionsOk \in BOOLEAN :
            LET available == getAvailableTransitions(context.linkedTicketId, transitionsOk)
            IN  IF outcome = "rejected"
                THEN v' = [v EXCEPT !.client = TRUE, !.step = "error", !.error = CallError]
                ELSE IF outcome = "missing" \/ getIssue(context.linkedTicketId) = NIL
                THEN v' = [v EXCEPT !.client = TRUE, !.step = "error",
                                    !.error = "Ticket not found."]
                ELSE IF Len(available) = 0
                THEN v' = [v EXCEPT
                       !.client = TRUE, !.ticket = getIssue(context.linkedTicketId),
                       !.step = "error",
                       !.error = "No status transitions available for this ticket."]
                ELSE v' = [v EXCEPT
                       !.client = TRUE, !.ticket = getIssue(context.linkedTicketId),
                       !.transitions = available, !.step = "select"]

\* A handleTransition that always sends the first transition of the list.
handleTransitionFirst ==
  IF ~v.client \/ context.linkedTicketId = NULL THEN Stay
  ELSE /\ v' = [v EXCEPT !.newStatus = v.transitions[v.selectedIndex + 1].toStatus,
                         !.step = "updating"]
       /\ job' = [pc |-> "transitionIssueById", id |-> v.transitions[1].id]
       /\ UNCHANGED <<currentView, sl, load>>

\* handleTransition() up to its first await.
handleTransition ==
  IF ~v.client \/ context.linkedTicketId = NULL THEN Stay
  ELSE /\ v' = [v EXCEPT !.newStatus = v.transitions[v.selectedIndex + 1].toStatus,
                         !.step = "updating"]
       /\ job' = [pc |-> "transitionIssueById",
                  id |-> v.transitions[v.selectedIndex + 1].id]
       /\ UNCHANGED <<currentView, sl, load>>

\* UpdateTicketStatus's useInput.
UpdateTicketStatusInput(k) ==
  /\ currentView = "update-ticket-status" /\ ~exited
  /\ UNCHANGED <<env, context, session>>
  /\ IF v.step = "select"
     THEN IF k.name = "escape" THEN navigate("main")
          ELSE IF k.name = "up"
          THEN /\ v' = [v EXCEPT !.selectedIndex = CursorUp(@, Len(v.transitions))]
               /\ UNCHANGED <<currentView, sl, load, job>>
          ELSE IF k.name = "down"
          THEN /\ v' = [v EXCEPT !.selectedIndex = CursorDown(@, Len(v.transitions))]
               /\ UNCHANGED <<currentView, sl, load, job>>
          ELSE IF k.name = "return" THEN handleTransition
          ELSE Stay
     ELSE IF v.step \in {"done", "error"} THEN TerminalInput(k)
     ELSE Stay

\* handleTransition resumes after its await.
UpdateTicketStatusJob ==
  /\ currentView = "update-ticket-status" /\ ~exited
  /\ job.pc # "idle"
  /\ UNCHANGED <<currentView, context, session, git, cfg, creds, remote, load>>
  /\ \E ok \in BOOLEAN :
       IF ok /\ TransitionTarget(context.linkedTicketId, job.id) # ""
       THEN /\ jira' = JiraTransitioned(context.linkedTicketId,
                                        TransitionTarget(context.linkedTicketId, job.id))
            /\ v' = [v EXCEPT !.step = "done"]
            /\ job' = Idle
            /\ UNCHANGED sl
       ELSE Failed(CallError) /\ UNCHANGED jira

\* ------------------------------------------------------- views/setup.tsx
Project(key) == [key |-> key, name |-> "Project"]
\* Answers of JiraClient.getProjects.
ProjectLists == {<<>>, <<Project(<<"P">>)>>}
WriteError == "write failed"

\* domain.split('.')[0]
FirstLabel(domain) ==
  SubSeq(domain, 1, RunLength(domain, 1, {domain[i] : i \in 1..Len(domain)} \ {"."}))

\* ConfigManager.createConfig(workspaceName, workspace, repoMapping)
createConfig(workspaceName, workspace, repoMapping) ==
  [state |-> "valid",
   workspaces |-> [n \in {workspaceName} |-> workspace],
   mappings |-> IF repoMapping # NULL THEN [r \in {repoMapping} |-> workspaceName]
                ELSE [r \in {} |-> workspaceName],
   baseBranch |-> MainBranch,
   slugMaxLength |-> 50]

\* ConfigManager.setJiraToken(workspace, token): the credentials afterwards.
TokenSet(workspace, token) ==
  [n \in DOMAIN creds \cup {workspace} |-> IF n = workspace THEN token ELSE creds[n]]

\* App.onSetupComplete; a rejection of getContext is not handled and leaves
\* the state as it is.
onSetupComplete ==
  IF getContext.raised
  THEN UNCHANGED <<currentView, context, isConfigured, v, sl, load, job>>
  ELSE /\ currentView' = "main"
       /\ Mounted("main")
       /\ context' = getContext.ctx
       /\ isConfigured' = TRUE

\* handleTokenSubmit() up to its first await.
handleTokenSubmit ==
  IF ~NonBlank(v.token) THEN Stay
  ELSE /\ v' = [v EXCEPT !.step = "testing"]
       /\ sl' = NoList
       /\ job' = [pc |-> "testConnection"]
       /\ UNCHANGED <<currentView, load>>

\* A handleProjectSelect that stores the token without the configuration.
handleProjectSelectTokenOnly(item) ==
  /\ v' = [v EXCEPT !.selectedProject = item.key, !.step = "saving"]
  /\ sl' = NoList
  /\ job' = [pc |-> "setJiraToken"]
  /\ UNCHANGED <<currentView, load>>

\* handleProjectSelect(project) up to its first await.
handleProjectSelect(item) ==
  /\ v' = [v EXCEPT !.selectedProject = item.key, !.step = "saving"]
  /\ sl' = NoList
  /\ job' = [pc |-> "initialize"]
  /\ UNCHANGED <<currentView, load>>

\* One of the wizard's text fields: TextInput's useInput.
SetupField(field, k, OnSubmit, OnBack) ==
  IF k.name = "escape" THEN OnBack
  ELSE IF k.name = "return" THEN OnSubmit
  ELSE /\ v' = [v EXCEPT ![field] = TextEdit(@, k, FALSE)]
       /\ UNCHANGED <<currentView, sl, load, job>>

\* Setup's useInput, with the TextInput or SelectList of the step.
SetupInput(k) ==
  /\ currentView = "setup" /\ ~exited
  /\ v.step = "domain" => TextKeyAllowed(v.domain, k, FALSE)
  /\ v.step = "email" => TextKeyAllowed(v.email, k, FALSE)
  /\ v.step = "token" => TextKeyAllowed(v.token, k, FALSE)
  /\ UNCHANGED <<env, exited, boot, visits>>
  /\ IF v.step = "done"
     THEN IF k.name = "return" THEN onSetupComplete
          ELSE Stay /\ UNCHANGED <<context, isConfigured>>
     ELSE /\ UNCHANGED <<context, isConfigured>>
          /\ CASE v.step = "welcome" ->
                    IF k.name = "return" THEN ToStep("domain") ELSE Stay
               [] v.step = "domain" ->
                    SetupField("domain", k,
                               IF NonBlank(v.domain) THEN ToStep("email") ELSE Stay,
                               Stay)
               [] v.step = "email" ->
                    SetupField("email", k,
                               IF NonBlank(v.email) THEN ToStep("token") ELSE Stay,
                               ToStep("domain"))
               [] v.step = "token" ->
                    SetupField("token", k, handleTokenSubmit, ToStep("email"))
               [] v.step = "projects" ->
                    ListInput(v.projects, k, handleProjectSelect, ToStep("token"))
               [] v.step = "error" ->
                    IF k.name = "escape"
                    THEN /\ v' = [v EXCEPT !.step = "domain", !.error = ""]
                         /\ UNCHANGED <<currentView, sl, load, job>>
                    ELSE Stay
               [] OTHER -> Stay

\* handleTokenSubmit / handleProjectSelect resume after one of their awaits.
SetupJob ==
  /\ currentView = "setup" /\ ~exited
  /\ job.pc # "idle"
  /\ UNCHANGED <<router, git, jira, remote, load>>
  /\ CASE job.pc = "testConnection" ->
            \* testConnection, getProjects and getRepoIdentifier
            /\ UNCHANGED <<cfg, creds>>
            /\ \E connected \in BOOLEAN, projectsOk \in BOOLEAN, projects \in ProjectLists :
                 IF ~connected
                 THEN Failed("Could not connect to Jira. Please check your credentials.")
                 ELSE IF ~projectsOk THEN Failed(CallError)
                 ELSE /\ v' = [v EXCEPT !.projects = projects,
                                        !.repoIdentifier = git.remote,
                                        !.step = "projects"]
                      /\ sl' = SelectListInit(projects, FALSE)
                      /\ job' = Idle
       [] job.pc = "initialize" ->
            /\ UNCHANGED creds
            /\ \E ok \in BOOLEAN :
                 IF ok
                 THEN /\ cfg' = createConfig(FirstLabel(v.domain),
                                   [domain |-> v.domain, email |-> v.email,
                                    defaultProject |-> v.selectedProject],
                                   v.repoIdentifier)
                      /\ job' = [job EXCEPT !.pc = "setJiraToken"]
                      /\ UNCHANGED <<v, sl>>
                 ELSE Failed(WriteError) /\ UNCHANGED cfg
       [] job.pc = "setJiraToken" ->
            /\ UNCHANGED cfg
            /\ \E ok \in BOOLEAN :
                 IF ok
                 THEN /\ creds' = TokenSet(FirstLabel(v.domain), v.token)
                      /\ v' = [v EXCEPT !.step = "done"]
                      /\ job' = Idle
                      /\ UNCHANGED sl
                 ELSE Failed(WriteError) /\ UNCHANGED creds

\* ----------------------------------------------------- views/settings.tsx
\* handleMenuSelect(item) up to its first await.
handleMenuSelect(item) ==
  CASE item.action = "view-config" ->
         /\ v' = [v EXCEPT !.step = "loading"]
         /\ sl' = NoList
         /\ job' = [pc |-> "load"]
         /\ UNCHANGED <<currentView, load>>
    [] item.action = "setup" -> navigate("setup")
    [] OTHER -> Stay

\* Settings' useInput, with the menu's SelectList.
SettingsInput(k) ==
  /\ currentView = "settings" /\ ~exited
  /\ UNCHANGED <<env, context, session>>
  /\ IF v.step = "menu"
     THEN ListInput(SettingsItems, k, handleMenuSelect, navigate("main"))
     ELSE IF v.step = "view-config" /\ k.name \in {"escape", "return"}
     THEN ToListStep("menu", SettingsItems, FALSE)
     ELSE Stay

\* handleMenuSelect resumes after configManager.load().
SettingsJob ==
  /\ currentView = "settings" /\ ~exited
  /\ job.pc # "idle"
  /\ v' = [v EXCEPT !.config = IF ConfigLoads THEN cfg ELSE NIL, !.step = "view-config"]
  /\ job' = Idle
  /\ UNCHANGED <<env, router, sl, load>>

\* -------------------------------------------------- views/my-tickets.tsx
\* status.toLowerCase().includes(name.toLowerCase()) over the tracker's status
\* names, none of which contains another.
StatusLower(name) ==
  CASE name = "To Do" -> "to do"
    [] name = "In Progress" -> "in progress"
    [] name = "Done" -> "done"
    [] name = "Open" -> "open"
    [] name = "Reopened" -> "reopened"
    [] name = "Closed" -> "closed"
    [] name = "Resolved" -> "resolved"
    [] OTHER -> name
StatusIncludes(status, names) == \E n \in names : StatusLower(status) = StatusLower(n)

\* The filter effect's selection (deps [filter, tickets]).
FilterTickets(filter, tickets) ==
  LET doneStatuses == {"done", "closed", "resolved"}
      statusMap == [todo |-> {"To Do", "Open", "Reopened"},
                    inprogress |-> {"In Progress"},
                    done |-> {"Done", "Closed", "Resolved"}]
      Keep(t) ==
        CASE filter = "all" -> TRUE
          [] filter = "active" -> ~StatusIncludes(t.status, doneStatuses)
          [] filter = "todo" -> StatusIncludes(t.status, statusMap.todo)
          [] filter = "in-progress" -> StatusIncludes(t.status, statusMap.inprogress)
          [] OTHER -> StatusIncludes(t.status, statusMap.done)
  IN  sortTicketsByKey(SelectSeq(tickets, Keep))

Filters == <<"active", "todo", "in-progress", "done", "all">>
\* filters[(filters.indexOf(filter) + 1) % filters.length]
NextFilter(filter) ==
  Filters[((CHOOSE i \in 1..Len(Filters) : Filters[i] = filter) % Len(Filters)) + 1]

\* Answers of JiraClient.getChildIssues for the epic; [] also when it fails.
ChildLists == {<<>>, <<Key1>>}

\* jiraClientRef.current?.isEpic(ticket)
IsEpic(ticket) == v.client /\ ticket # NIL /\ ticket.issueType = "Epic"

\* prev.map(t => t.key === key ? updated : t)
\* A save that leaves the lists as they were.
ReplacedNone(tickets, updated) == tickets

Replaced(tickets, updated) ==
  [i \in 1..Len(tickets) |-> IF tickets[i].key = updated.key THEN updated ELSE tickets[i]]

\* The loadTickets effect settles.
MyTicketsLoad ==
  /\ currentView = "my-tickets" /\ ~exited
  /\ load = "running"
  /\ load' = "idle"
  /\ UNCHANGED <<env, router, job>>
  /\ IF LoadGuard("No Jira workspace configured.", "Jira token not found.") # ""
     THEN /\ v' = [v EXCEPT !.step = "error",
                     !.error = LoadGuard("No Jira workspace configured.",
                                         "Jira token not found.")]
          /\ sl' = NoList
     ELSE \E ok \in BOOLEAN, keys \in TicketLists :
            IF ~ok
            THEN /\ v' = [v EXCEPT !.client = TRUE, !.step = "error", !.error = CallError]
                 /\ sl' = NoList
            ELSE LET sorted == sortTicketsByKey(Issues(keys))
                 IN  /\ v' = [v EXCEPT !.client = TRUE, !.tickets = sorted,
                                !.filteredTickets = FilterTickets(v.filter, sorted),
                                !.step = "list"]
                     /\ sl' = SelectListInit(FilterTickets(v.filter, sorted), TRUE)

\* handleTicketSelect(item) / handleChildSelect(item) up to the await.
MyTicketsTicketSelect(item) ==
  /\ v' = [v EXCEPT !.selectedTicket = item, !.detailIndex = 0,
                    !.isEditingStatus = FALSE, !.selectedTransitionIndex = -1,
                    !.step = "detail",
                    !.fetches = IF v.client THEN @ \cup {[target |-> "ticket", key |-> item.key]}
                                ELSE @]
  /\ sl' = NoList
  /\ UNCHANGED <<currentView, load, job>>

handleChildSelect(item) ==
  /\ v' = [v EXCEPT !.selectedChildTicket = item, !.childDetailIndex = 0,
                    !.isEditingChildStatus = FALSE, !.childSelectedTransitionIndex = -1,
                    !.step = "child-detail",
                    !.fetches = IF v.client THEN @ \cup {[target |-> "child", key |-> item.key]}
                                ELSE @]
  /\ sl' = NoList
  /\ UNCHANGED <<currentView, load, job>>

\* handleStartWork() / handleStartWorkOnChild() up to the first await.
handleStartWork(ticket) ==
  IF ticket = NIL \/ context.workspace = NIL \/ context.workspaceName = NULL THEN Stay
  ELSE /\ v' = [v EXCEPT !.step = "creating-branch"]
       /\ job' = [pc |-> "createBranch", ticket |-> ticket]
       /\ UNCHANGED <<currentView, sl, load>>

\* handleViewChildIssues() up to the await.
handleViewChildIssues ==
  IF v.selectedTicket = NIL \/ ~v.client THEN Stay
  ELSE /\ v' = [v EXCEPT !.step = "loading-children"]
       /\ job' = [pc |-> "getChildIssues"]
       /\ UNCHANGED <<currentView, sl, load>>

\* handleSaveStatus(ticket, transition) up to the first await.
\* handleSaveStatus without setIsSavingStatus(true).
handleSaveStatusUnflagged(ticket, transition) ==
  IF ~v.client THEN Stay
  ELSE /\ jira.moved < MaxMoves
       /\ job' = [pc |-> "transitionIssueById", ticket |-> ticket, transition |-> transition]
       /\ UNCHANGED <<currentView, v, sl, load>>

handleSaveStatus(ticket, transition) ==
  IF ~v.client THEN Stay
  ELSE /\ jira.moved < MaxMoves
       /\ v' = [v EXCEPT !.isSavingStatus = TRUE]
       /\ job' = [pc |-> "transitionIssueById", ticket |-> ticket, transition |-> transition]
       /\ UNCHANGED <<currentView, sl, load>>

\* setStep(step) from a detail step to the step that lists `items`; the
\* SelectList is rendered only for a non-empty child list.
MyTicketsToList(step, items) ==
  IF step = "children" /\ Len(items) = 0 THEN ToStep(step)
  ELSE ToListStep(step, items, TRUE)

\* setSelectedTransitionIndex updaters of the left and right arrows.
TransitionLeft(prev, n) == IF prev <= 0 THEN n - 1 ELSE prev - 1
TransitionRight(prev, n) == IF prev >= n - 1 \/ prev < 0 THEN 0 ELSE prev + 1


\* The detail step of MyTickets' useInput.
MyTicketsDetailInput(k) ==
  LET n == Len(v.availableTransitions)
      menuItemCount == IF IsEpic(v.selectedTicket) THEN 4 ELSE 3
      SetIndex(index) == /\ v' = [v EXCEPT !.detailIndex = index]
                         /\ UNCHANGED <<currentView, sl, load, job>>
  IN  IF v.isSavingStatus THEN Stay
      ELSE IF k.name = "escape"
      THEN IF v.isEditingStatus
           THEN /\ v' = [v EXCEPT !.isEditingStatus = FALSE, !.selectedTransitionIndex = -1]
                /\ UNCHANGED <<currentView, sl, load, job>>
           ELSE MyTicketsToList("list", v.filteredTickets)
      ELSE IF k.name \in {"left", "right"} /\ n > 0
      THEN /\ v' = [v EXCEPT !.isEditingStatus = TRUE,
                      !.selectedTransitionIndex =
                         IF k.name = "left" THEN TransitionLeft(@, n)
                         ELSE TransitionRight(@, n)]
           /\ UNCHANGED <<currentView, sl, load, job>>
      ELSE IF k.name = "return" /\ v.isEditingStatus /\ v.selectedTransitionIndex >= 0
      THEN IF v.selectedTicket # NIL /\ v.selectedTransitionIndex < n
           THEN handleSaveStatus(v.selectedTicket,
                                 v.availableTransitions[v.selectedTransitionIndex + 1])
           ELSE Stay
      ELSE IF k.name = "up" THEN SetIndex(IF v.detailIndex = 0 THEN menuItemCount - 1
                                          ELSE v.detailIndex - 1)
      ELSE IF k.name = "down" THEN SetIndex(IF v.detailIndex = menuItemCount - 1 THEN 0
                                            ELSE v.detailIndex + 1)
      ELSE IF k.name = "return" /\ ~v.isEditingStatus
      THEN IF v.detailIndex = 0 THEN handleStartWork(v.selectedTicket)
           ELSE IF IsEpic(v.selectedTicket) /\ v.detailIndex = 1 THEN handleViewChildIssues
           ELSE IF v.detailIndex = (IF IsEpic(v.selectedTicket) THEN 2 ELSE 1)
           THEN Stay   \* handleViewInBrowser: opens the browser, no state
           ELSE MyTicketsToList("list", v.filteredTickets)
      ELSE Stay

\* The child-detail step of MyTickets' useInput.
MyTicketsChildDetailInput(k) ==
  LET n == Len(v.childAvailableTransitions)
      SetIndex(index) == /\ v' = [v EXCEPT !.childDetailIndex = index]
                         /\ UNCHANGED <<currentView, sl, load, job>>
  IN  IF v.isSavingStatus THEN Stay
      ELSE IF k.name = "escape"
      THEN IF v.isEditingChildStatus
           THEN /\ v' = [v EXCEPT !.isEditingChildStatus = FALSE,
                                  !.childSelectedTransitionIndex = -1]
                /\ UNCHANGED <<currentView, sl, load, job>>
           ELSE MyTicketsToList("children", v.childIssues)
      ELSE IF k.name \in {"left", "right"} /\ n > 0
      THEN /\ v' = [v EXCEPT !.isEditingChildStatus = TRUE,
                      !.childSelectedTransitionIndex =
                         IF k.name = "left" THEN TransitionLeft(@, n)
                         ELSE TransitionRight(@, n)]
           /\ UNCHANGED <<currentView, sl, load, job>>
      ELSE IF k.name = "return" /\ v.isEditingChildStatus
              /\ v.childSelectedTransitionIndex >= 0
      THEN IF v.selectedChildTicket # NIL /\ v.childSelectedTransitionIndex < n
           THEN handleSaveStatus(v.selectedChildTicket,
                  v.childAvailableTransitions[v.childSelectedTransitionIndex + 1])
           ELSE Stay
      ELSE IF k.name = "up" THEN SetIndex(IF v.childDetailIndex = 0 THEN 2
                                          ELSE v.childDetailIndex - 1)
      ELSE IF k.name = "down" THEN SetIndex(IF v.childDetailIndex = 2 THEN 0
                                            ELSE v.childDetailIndex + 1)
      ELSE IF k.name = "return" /\ ~v.isEditingChildStatus
      THEN IF v.childDetailIndex = 0 THEN handleStartWork(v.selectedChildTicket)
           ELSE IF v.childDetailIndex = 1 THEN Stay   \* handleViewInBrowser
           ELSE MyTicketsToList("children", v.childIssues)
      ELSE Stay

\* MyTickets' useInput, with the SelectList of the list and children steps.
MyTicketsInput(k) ==
  /\ currentView = "my-tickets" /\ ~exited
  /\ ListKeyAllowed(k)
  /\ UNCHANGED <<env, context, session>>
  /\ CASE v.step = "list" ->
            IF k.name = "tab"
            THEN LET filtered == FilterTickets(NextFilter(v.filter), v.tickets)
                 IN  /\ v' = [v EXCEPT !.filter = NextFilter(@), !.filteredTickets = filtered]
                     /\ sl' = SelectListFilter(sl, filtered)
                     /\ UNCHANGED <<currentView, load, job>>
            ELSE ListInput(v.filteredTickets, k, MyTicketsTicketSelect, navigate("main"))
       [] v.step = "detail" -> MyTicketsDetailInput(k)
       [] v.step = "children" ->
            IF Len(v.childIssues) = 0
            THEN IF k.name = "escape" THEN ToStep("detail") ELSE Stay
            ELSE ListInput(v.childIssues, k, handleChildSelect, ToStep("detail"))
       [] v.step = "child-detail" -> MyTicketsChildDetailInput(k)
       [] v.step = "error" -> TerminalInput(k)
       [] OTHER -> Stay

\* A getAvailableTransitions request of handleTicketSelect / handleChildSelect
\* is answered; the re-render hands a mounted SelectList a new items array.
MyTicketsFetch ==
  /\ currentView = "my-tickets" /\ ~exited
  /\ UNCHANGED <<env, router, load, job>>
  /\ \E f \in v.fetches, ok \in BOOLEAN :
       /\ v' = [v EXCEPT
            !.fetches = @ \ {f},
            !.availableTransitions =
               IF f.target = "ticket" THEN getAvailableTransitions(f.key, ok) ELSE @,
            !.childAvailableTransitions =
               IF f.target = "child" THEN getAvailableTransitions(f.key, ok) ELSE @,
            !.transitionsOf = IF f.target = "ticket" THEN f.key ELSE @,
            !.childTransitionsOf = IF f.target = "child" THEN f.key ELSE @]
       /\ sl' = IF ~sl.mounted THEN sl
                ELSE SelectListFilter(sl, IF v.step = "list" THEN v.filteredTickets
                                          ELSE v.childIssues)


\* The finally block of handleSaveStatus.
SaveSettled(view) ==
  [view EXCEPT !.isSavingStatus = FALSE, !.isEditingStatus = FALSE,
               !.isEditingChildStatus = FALSE, !.selectedTransitionIndex = -1,
               !.childSelectedTransitionIndex = -1]

\* handleStartWork / handleViewChildIssues / handleSaveStatus resume after one
\* of their awaits.
MyTicketsJob ==
  /\ currentView = "my-tickets" /\ ~exited
  /\ job.pc # "idle"
  /\ UNCHANGED <<session, cfg, creds, remote>>
  /\ \E ok \in BOOLEAN, probeOk \in BOOLEAN :
     CASE job.pc = "createBranch" ->
            \* configManager.load(), git.branchExists (false when the listing
            \* fails), then checkoutBranch or createBranch
            /\ UNCHANGED <<jira, context, currentView, load>>
            /\ IF ~ConfigLoads
               THEN Failed(ConfigError) /\ UNCHANGED git
               ELSE LET branchName == generateBranchName(job.ticket.key, job.ticket.summary,
                                                         cfg.slugMaxLength)
                        exists == probeOk /\ branchName \in git.branches
                    IN  IF exists /\ ok /\ GitCanCheckout(branchName)
                        THEN /\ git' = GitCheckedOut(branchName)
                             /\ job' = [job EXCEPT !.pc = "refreshContext"]
                             /\ UNCHANGED <<v, sl>>
                        ELSE IF ~exists /\ ok /\ GitCanCreate(branchName, cfg.baseBranch)
                        THEN /\ git' = GitCreated(branchName)
                             /\ job' = [job EXCEPT !.pc = "refreshContext"]
                             /\ UNCHANGED <<v, sl>>
                        ELSE Failed(GitError) /\ UNCHANGED git
       [] job.pc = "refreshContext" ->
            \* await refreshContext(); navigate('main')
            /\ UNCHANGED <<git, jira>>
            /\ IF getContext.raised
               THEN Failed(ConfigError) /\ UNCHANGED <<context, currentView, load>>
               ELSE context' = getContext.ctx /\ navigate("main")
       [] job.pc = "getChildIssues" ->
            /\ UNCHANGED <<git, jira, context, currentView, load>>
            /\ \E keys \in ChildLists :
                 LET children == sortTicketsByKey(Issues(keys))
                 IN  /\ v' = [v EXCEPT !.childIssues = children, !.step = "children"]
                     /\ sl' = IF Len(children) = 0 THEN NoList
                              ELSE SelectListInit(children, TRUE)
                     /\ job' = Idle
       [] job.pc = "transitionIssueById" ->
            /\ UNCHANGED <<git, context, currentView, load, sl>>
            /\ IF ok /\ TransitionTarget(job.ticket.key, job.transition.id) # ""
               THEN LET updatedTicket == [job.ticket EXCEPT !.status = job.transition.toStatus]
                        KeyIs(t) == t # NIL /\ t.key = job.ticket.key
                    IN  /\ jira' = JiraTransitioned(job.ticket.key,
                                     TransitionTarget(job.ticket.key, job.transition.id))
                        /\ v' = [v EXCEPT
                             !.tickets = Replaced(@, updatedTicket),
                             !.filteredTickets =
                                FilterTickets(v.filter, Replaced(v.tickets, updatedTicket)),
                             !.selectedTicket = IF KeyIs(@) THEN updatedTicket ELSE @,
                             !.selectedChildTicket = IF KeyIs(@) THEN updatedTicket ELSE @,
                             !.childIssues = IF KeyIs(v.selectedChildTicket)
                                             THEN Replaced(@, updatedTicket) ELSE @]
                        /\ job' = [job EXCEPT !.pc = "reloadTransitions"]
               ELSE /\ v' = SaveSettled([v EXCEPT !.error = CallError])
                    /\ job' = Idle
                    /\ UNCHANGED jira
       [] job.pc = "reloadTransitions" ->
            \* getAvailableTransitions answers [] when it fails
            /\ UNCHANGED <<git, jira, context, currentView, load, sl>>
            /\ LET newTransitions == getAvailableTransitions(job.ticket.key, ok)
                   KeyIs(t) == t # NIL /\ t.key = job.ticket.key
               IN  v' = SaveSettled([v EXCEPT
                           !.availableTransitions =
                              IF KeyIs(v.selectedTicket) THEN newTransitions ELSE @,
                           !.childAvailableTransitions =
                              IF KeyIs(v.selectedChildTicket) THEN newTransitions ELSE @,
                           !.transitionsOf =
                              IF KeyIs(v.selectedTicket) THEN job.ticket.key ELSE @,
                           !.childTransitionsOf =
                              IF KeyIs(v.selectedChildTicket) THEN job.ticket.key ELSE @])
            /\ job' = Idle

\* ------------------------------------------------------------ the system
ConfigFiles ==
  {[state |-> "absent"], [state |-> "invalid"],
   ValidConfig([k \in {RepoId} |-> WorkspaceName]),
   ValidConfig([k \in {} |-> WorkspaceName])}

\* The repository, the files of ~/.jh-cli and the tracker at process start.
InitEnv ==
  /\ git \in {[isRepo |-> FALSE, current |-> NULL, branches |-> {}, remote |-> NULL]}
             \cup {[isRepo |-> TRUE, current |-> b,
                    branches |-> {MainBranch, FeatBranch, LinkedBranch}, remote |-> r] :
                   b \in {MainBranch, FeatBranch, LinkedBranch}, r \in {NULL, RepoId}}
  /\ cfg \in ConfigFiles
  /\ creds \in {[n \in {} |-> Token], [n \in {WorkspaceName} |-> Token]}
  /\ jira = [issues |-> [k \in {Key1, Key2} |-> IF k = Key1 THEN Ticket1 ELSE Ticket2],
             created |-> 0, moved |-> 0]
  /\ remote = [pushed |-> {}, prs |-> {}]

Init ==
  /\ InitEnv
  /\ currentView = "loading"
  /\ context = NIL
  /\ isConfigured = FALSE
  /\ exited = FALSE
  /\ boot = "pending"
  /\ v = [step |-> "loading"]
  /\ sl = NoList
  /\ load = "idle"
  /\ job = Idle
  /\ visits = 0

Next ==
  \/ Initialize
  \/ \E k \in MenuKeys : MainMenuInput(k)
  \/ MainMenuPrUrl
  \/ MainMenuTicket
  \/ NewTicketLoad
  \/ \E k \in AppKeys : NewTicketInput(k)
  \/ NewTicketJob
  \/ LinkBranchLoad
  \/ \E k \in AppKeys : LinkBranchInput(k)
  \/ LinkBranchJob
  \/ SwitchBranchLoad
  \/ \E k \in AppKeys : SwitchBranchInput(k)
  \/ SwitchBranchJob
  \/ CreateTicketFromBranchLoad
  \/ \E k \in AppKeys : CreateTicketFromBranchInput(k)
  \/ CreateTicketFromBranchJob
  \/ \E k \in AppKeys : SetupInput(k)
  \/ SetupJob
  \/ \E k \in AppKeys : SettingsInput(k)
  \/ SettingsJob
  \/ MyTicketsLoad
  \/ \E k \in NavKeys : MyTicketsInput(k)
  \/ MyTicketsJob
  \/ MyTicketsFetch
  \/ CreatePRLoad
  \/ \E k \in AppKeys : CreatePRInput(k)
  \/ CreatePRJob
  \/ UpdateTicketStatusLoad
  \/ \E k \in AppKeys : UpdateTicketStatusInput(k)
  \/ UpdateTicketStatusJob

Spec == Init /\ [][Next]_vars

\* -------------------------------------------------- the views, one by one
\* The router renders StartWork for currentView = 'start-work' (app.tsx, case
\* 'start-work'), but no menu item and no navigate call leads there. The view
\* is therefore explored as the router mounts it: over every context that
\* initialize() can have stored.
InitStartWorkMounted ==
  /\ InitEnv
  /\ ConfigExists /\ ~getContext.raised
  /\ currentView = "start-work"
  /\ context = getContext.ctx
  /\ isConfigured = TRUE
  /\ exited = FALSE
  /\ boot = "done"
  /\ v = InitStartWork
  /\ sl = NoList
  /\ load = "running"
  /\ job = Idle
  /\ visits = MaxVisits

InitViews == Init \/ InitStartWorkMounted

NextViews ==
  \/ Next
  \/ StartWorkLoad
  \/ \E k \in AppKeys : StartWorkInput(k)
  \/ StartWorkJob

\* The application together with the start-work view.
SpecViews == InitViews /\ [][NextViews]_vars

\* A searchable SelectList on its own, under the whole keyboard: the ticket
\* list of start-work after the tickets have loaded.
MaxQuery == 2

InitSelectList ==
  /\ InitEnv
  /\ git.isRepo /\ git.current = MainBranch /\ git.remote = RepoId
  /\ cfg = ValidConfig([k \in {RepoId} |-> WorkspaceName])
  /\ creds = [n \in {WorkspaceName} |-> Token]
  /\ currentView = "start-work"
  /\ context = getContext.ctx
  /\ isConfigured = TRUE
  /\ exited = FALSE
  /\ boot = "done"
  /\ \E keys \in TicketLists \cup {<<Key2, Key1>>, <<Key2>>} :
       /\ v = [InitStartWork EXCEPT !.step = "select-ticket", !.tickets = Issues(keys)]
       /\ sl = SelectListInit(Issues(keys), TRUE)
  /\ load = "idle"
  /\ job = Idle
  /\ visits = MaxVisits

\* One key event delivered to the SelectList's useInput (arrows and search).
SelectListKey(k) ==
  /\ sl.mounted
  /\ k.name \notin {"return", "escape"}
  /\ k.name = "char" => Len(sl.searchQuery) < MaxQuery
  /\ sl' = SelectListInput(sl, v.tickets, k)
  /\ UNCHANGED <<env, router, v, load, job>>

NextSelectList == \E k \in Keys : SelectListKey(k)

SpecSelectList == InitSelectList /\ [][NextSelectList]_vars

\* ------------------------------------------------- context resolution
\* Repository identifiers, mapping keys and workspace names of hand-edited
\* configuration files: z.record(z.string()) accepts any of them.
OtherRepo == <<"x", "/", "r">>
MappingKeys == {RepoId, <<"o", "/", "*">>, <<"x", "/", "*">>}
MappingNames == {WorkspaceName, <<"b">>, <<>>}
MappingTables == UNION {[keys -> MappingNames] : keys \in SUBSET MappingKeys}

InitContext ==
  /\ git \in {[isRepo |-> FALSE, current |-> NULL, branches |-> {}, remote |-> NULL]}
             \cup {[isRepo |-> TRUE, current |-> b,
                    branches |-> {MainBranch, FeatBranch, LinkedBranch}, remote |-> r] :
                   b \in {MainBranch, FeatBranch, LinkedBranch},
                   r \in {NULL, RepoId, OtherRepo}}
  /\ cfg \in {[state |-> "absent"], [state |-> "invalid"]}
              \cup {ValidConfig(mappings) : mappings \in MappingTables}
  /\ creds = [n \in {WorkspaceName} |-> Token]
  /\ jira = [issues |-> [k \in {Key1, Key2} |-> IF k = Key1 THEN Ticket1 ELSE Ticket2],
             created |-> 0, moved |-> 0]
  /\ remote = [pushed |-> {}, prs |-> {}]
  /\ currentView = "loading"
  /\ context = NIL
  /\ isConfigured = FALSE
  /\ exited = FALSE
  /\ boot = "pending"
  /\ v = [step |-> "loading"]
  /\ sl = NoList
  /\ load = "idle"
  /\ job = Idle
  /\ visits = 0

\* The router's initial load over every repository and configuration file.
SpecContext == InitContext /\ [][Initialize]_vars

\* ---------------------------------------------------------- branch names
\* Branch names of at most MaxBranch characters over an alphabet with one
\* character of each class the ticket-id pattern tells apart.
MaxBranch == 5
BranchChars == {"A", "1", "-", "a", "/"}
BranchNames == UNION {[1..n -> BranchChars] : n \in 1..MaxBranch}

InitTicketId ==
  /\ \E b \in BranchNames :
       git = [isRepo |-> TRUE, current |-> b, branches |-> {MainBranch, b},
              remote |-> RepoId]
  /\ cfg = ValidConfig([k \in {RepoId} |-> WorkspaceName])
  /\ creds = [n \in {WorkspaceName} |-> Token]
  /\ jira = [issues |-> [k \in {Key1, Key2} |-> IF k = Key1 THEN Ticket1 ELSE Ticket2],
             created |-> 0, moved |-> 0]
  /\ remote = [pushed |-> {}, prs |-> {}]
  /\ currentView = "loading"
  /\ context = NIL
  /\ isConfigured = FALSE
  /\ exited = FALSE
  /\ boot = "pending"
  /\ v = [step |-> "loading"]
  /\ sl = NoList
  /\ load = "idle"
  /\ job = Idle
  /\ visits = 0

\* The router's initial load on every branch name.
SpecTicketId == InitTicketId /\ [][Initialize]_vars

\* ------------------------------------------------------------ slugs
\* Titles of at most MaxTitle characters over an alphabet with a character of
\* each class slugify tells apart, and slug lengths up to MaxSlug.
MaxTitle == 4
MaxSlug == 4
TitleChars == {"A", "b", "1", " ", "_", "-", "!", "e-acute"}
Titles == UNION {[1..n -> TitleChars] : n \in 0..MaxTitle}

\* new-ticket after createIssue answered: the branch is about to be created
\* from the title typed and the configured slug length.
InitSlug ==
  /\ git = [isRepo |-> TRUE, current |-> MainBranch,
            branches |-> {MainBranch, FeatBranch}, remote |-> RepoId]
  /\ \E n \in 0..MaxSlug :
       cfg = [ValidConfig([k \in {RepoId} |-> WorkspaceName]) EXCEPT !.slugMaxLength = n]
  /\ creds = [n \in {WorkspaceName} |-> Token]
  /\ remote = [pushed |-> {}, prs |-> {}]
  /\ currentView = "new-ticket"
  /\ context = getContext.ctx
  /\ isConfigured = TRUE
  /\ exited = FALSE
  /\ boot = "done"
  /\ \E title \in {t \in Titles : NonBlank(t)} :
       /\ jira = [issues |-> (CreatedKey(1) :>
                                [summary |-> title, issueType |-> "Task",
                                 status |-> "To Do"])
                              @@ [k \in {Key1, Key2} |->
                                    IF k = Key1 THEN Ticket1 ELSE Ticket2],
                  created |-> 1, moved |-> 0]
       /\ v = [InitNewTicket EXCEPT !.step = "creating",
                                    !.issueTypes = <<"Task", "Bug">>,
                                    !.selectedType = "Task",
                                    !.title = title,
                                    !.createdTicket = [key |-> CreatedKey(1),
                                                       summary |-> title,
                                                       issueType |-> "Task",
                                                       status |-> "To Do"]]
  /\ sl = NoList
  /\ load = "idle"
  /\ job = [pc |-> "createBranch", createBranch |-> TRUE]
  /\ visits = MaxVisits

\* The rest of NewTicket.handleCreate on every title and slug length.
SpecSlug == InitSlug /\ [][NewTicketJob]_vars

\* ---------------------------------------------------------- ticket lists
\* Answers of the tracker's search: lists of at most MaxList distinct tickets
\* of three projects, with one- and two-digit numbers, two of them equal in
\* value.
MaxList == 4
SortKeys ==
  {<<"A", "-", "1">>, <<"A", "-", "1", "0">>, <<"A", "-", "2">>,
   <<"A", "-", "0", "1">>, <<"B", "-", "5">>, <<"A", "1", "-", "3">>}
SortInputs ==
  {l \in UNION {[1..n -> SortKeys] : n \in 0..MaxList} :
     \A i, j \in 1..Len(l) : i # j => l[i] # l[j]}

InitSort ==
  /\ \E b \in {MainBranch, FeatBranch} :
       git = [isRepo |-> TRUE, current |-> b,
              branches |-> {MainBranch, FeatBranch}, remote |-> RepoId]
  /\ cfg = ValidConfig([k \in {RepoId} |-> WorkspaceName])
  /\ creds = [n \in {WorkspaceName} |-> Token]
  /\ jira = [issues |-> [k \in SortKeys |-> Ticket1], created |-> 0, moved |-> 0]
  /\ remote = [pushed |-> {}, prs |-> {}]
  /\ currentView = "start-work"
  /\ context = getContext.ctx
  /\ isConfigured = TRUE
  /\ exited = FALSE
  /\ boot = "done"
  /\ v = InitStartWork
  /\ sl = NoList
  /\ load = "running"
  /\ job = Idle
  /\ visits = MaxVisits

\* The load of start-work on every answer of the tracker.
StartWorkLoadSorted ==
  \E list \in SortInputs : StartWorkLoaded([ok |-> TRUE, list |-> list])

SpecSort == InitSort /\ [][StartWorkLoadSorted]_vars

\* ------------------------------------------------------- my-tickets alone
\* The keys of a user who browses tickets and edits their status.
StatusKeys ==
  {Key(n, "") : n \in {"up", "down", "left", "right", "return", "escape"}}

\* my-tickets just mounted from the main menu, in a repository mapped to the
\* workspace.
InitMyTicketsMounted ==
  /\ git = [isRepo |-> TRUE, current |-> MainBranch,
            branches |-> {MainBranch, FeatBranch, LinkedBranch}, remote |-> RepoId]
  /\ cfg = ValidConfig([k \in {RepoId} |-> WorkspaceName])
  /\ creds = [n \in {WorkspaceName} |-> Token]
  /\ jira = [issues |-> [k \in {Key1, Key2} |-> IF k = Key1 THEN Ticket1 ELSE Ticket2],
             created |-> 0, moved |-> 0]
  /\ remote = [pushed |-> {}, prs |-> {}]
  /\ currentView = "my-tickets"
  /\ context = getContext.ctx
  /\ isConfigured = TRUE
  /\ exited = FALSE
  /\ boot = "done"
  /\ v = InitMyTickets
  /\ sl = NoList
  /\ load = "running"
  /\ job = Idle
  /\ visits = MaxVisits

NextMyTickets ==
  \/ MyTicketsLoad
  \/ \E k \in StatusKeys : MyTicketsInput(k)
  \/ MyTicketsJob
  \/ MyTicketsFetch

SpecMyTickets == InitMyTicketsMounted /\ [][NextMyTickets]_vars

\* ------------------------------------------------- titles from branch names
\* create-ticket-from-branch entered on a branch the menu offers it for: no
\* ticket id at its start, not main. The names are an optional known prefix
\* followed by at most MaxStem characters.
MaxStem == 4
StemChars == {"A", "1", "-", "a", "/", "_"}
Stems == UNION {[1..n -> StemChars] : n \in 1..MaxStem}
StemPrefixes == {<<>>, <<"f", "i", "x", "/">>, <<"c", "h", "o", "r", "e", "/">>}
TitleBranches ==
  {b \in {p \o s : p \in StemPrefixes, s \in Stems} : ContextExtractTicketId(b) = NULL}

InitTitle ==
  /\ \E b \in TitleBranches :
       git = [isRepo |-> TRUE, current |-> b, branches |-> {MainBranch, b},
              remote |-> RepoId]
  /\ cfg = ValidConfig([k \in {RepoId} |-> WorkspaceName])
  /\ creds = [n \in {WorkspaceName} |-> Token]
  /\ jira = [issues |-> [k \in {Key1, Key2} |-> IF k = Key1 THEN Ticket1 ELSE Ticket2],
             created |-> 0, moved |-> 0]
  /\ remote = [pushed |-> {}, prs |-> {}]
  /\ currentView = "create-ticket-from-branch"
  /\ context = getContext.ctx
  /\ isConfigured = TRUE
  /\ exited = FALSE
  /\ boot = "done"
  /\ v = InitCreateTicketFromBranch
  /\ sl = NoList
  /\ load = "running"
  /\ job = Idle
  /\ visits = MaxVisits

\* The loading step of create-ticket-from-branch on every such branch.
SpecTitle == InitTitle /\ [][CreateTicketFromBranchLoad]_vars

\* ------------------------------------------- loading steps, fetch by fetch
\* The loading steps of create-ticket-from-branch and switch-branch with every
\* fetch settling on its own, in any order.
Call(name, id) == [call |-> name, id |-> id]
\* The fetches loadData hands to Promise.all.
LoadDataCalls ==
  {Call("getIssueTypes", <<>>), Call("getCurrentUser", <<>>), Call("getActiveSprints", <<>>)}
\* The calls that reject when they fail; the others catch their own failure and
\* answer [] or null.
RequiredCalls ==
  {Call("getIssueTypes", <<>>), Call("getCurrentUser", <<>>), Call("listBranches", <<>>)}
Joining(pending, failed) == [pc |-> "join", pending |-> pending, failed |-> failed]
\* No call is outstanding any more; `failed` keeps which ones had failed.
Settled(failed) == [pc |-> "idle", failed |-> failed]
AfterSettle(pending, failed) ==
  IF pending = {} THEN Settled(failed) ELSE Joining(pending, failed)

\* A join that resumes loadData with the first answer.
CreateTicketFromBranchSettleFirst ==
  /\ currentView = "create-ticket-from-branch" /\ ~exited
  /\ job.pc = "join"
  /\ UNCHANGED <<env, router, sl>>
  /\ \E f \in job.pending, ok \in BOOLEAN :
       LET pending == job.pending \ {f}
           failed == IF ok THEN job.failed ELSE job.failed \cup {f}
       IN  IF load = "idle"
           THEN job' = AfterSettle(pending, failed) /\ UNCHANGED <<v, load>>
           ELSE /\ \E types \in IssueTypeLists, sprintList \in SprintLists, logOk \in BOOLEAN :
                     v' = CreateTicketFromBranchLoaded(ok \/ f \notin RequiredCalls, types,
                            IF Call("getActiveSprints", <<>>) \in failed THEN <<>>
                            ELSE sprintList, logOk)
                /\ load' = "idle"
                /\ job' = AfterSettle(pending, failed)

\* One fetch of loadData's Promise.all settles: the first rejection rejects the
\* join, the last fulfilment resolves it and loadData runs to its end.
CreateTicketFromBranchSettle ==
  /\ currentView = "create-ticket-from-branch" /\ ~exited
  /\ job.pc = "join"
  /\ UNCHANGED <<env, router, sl>>
  /\ \E f \in job.pending, ok \in BOOLEAN :
       LET pending == job.pending \ {f}
           failed == IF ok THEN job.failed ELSE job.failed \cup {f}
       IN  IF load = "idle"
           \* the join has rejected already: the answer is dropped
           THEN job' = AfterSettle(pending, failed) /\ UNCHANGED <<v, load>>
           ELSE IF ~ok /\ f \in RequiredCalls
           THEN /\ v' = CreateTicketFromBranchLoaded(FALSE, <<>>, <<>>, FALSE)
                /\ load' = "idle"
                /\ job' = AfterSettle(pending, failed)
           ELSE IF pending = {}
           THEN /\ \E types \in IssueTypeLists, sprintList \in SprintLists, logOk \in BOOLEAN :
                     v' = CreateTicketFromBranchLoaded(TRUE, types,
                            IF Call("getActiveSprints", <<>>) \in failed THEN <<>>
                            ELSE sprintList, logOk)
                /\ load' = "idle"
                /\ job' = Settled(failed)
           ELSE job' = Joining(pending, failed) /\ UNCHANGED <<v, load>>

\* The ticket lookups loadBranches hands to Promise.all.
BranchLookups == {Call("getIssue", id) : id \in BranchTicketIds}

\* One call of loadBranches settles: listBranches, then the pull-request
\* listing, then the ticket lookups together.
SwitchBranchSettle ==
  /\ currentView = "switch-branch" /\ ~exited
  /\ job.pc = "join" /\ load = "running"
  /\ UNCHANGED <<env, router, sl>>
  /\ \E f \in job.pending, ok \in BOOLEAN :
       LET pending == job.pending \ {f}
           failed == IF ok THEN job.failed ELSE job.failed \cup {f}
           withTickets == /\ context.workspace # NIL
                          /\ context.workspaceName # NULL
                          /\ getJiraToken(context.workspaceName) # NULL
           Finish == /\ loadBranches(TRUE, Call("getPRInfoForBranches", <<>>) \notin failed,
                                     {c.id : c \in failed \cap BranchLookups})
                     /\ load' = "idle"
                     /\ job' = Settled(failed)
           Wait(calls) == job' = Joining(calls, failed) /\ UNCHANGED <<v, load>>
       IN  IF f.call = "listBranches"
           THEN IF ok /\ git.isRepo THEN Wait({Call("getPRInfoForBranches", <<>>)})
                ELSE loadBranches(FALSE, FALSE, {}) /\ load' = "idle" /\ job' = Settled(failed)
           ELSE IF f.call = "getPRInfoForBranches"
           THEN IF withTickets /\ BranchLookups # {} THEN Wait(BranchLookups) ELSE Finish
           ELSE IF pending = {} THEN Finish
           ELSE Wait(pending)

SecondLinkedBranch == <<"A", "-", "2", "/", "b">>

InitJoin ==
  /\ \E b \in {MainBranch, FeatBranch}, prs \in {{}, {LinkedBranch}, {FeatBranch}} :
       /\ git = [isRepo |-> TRUE, current |-> b,
                 branches |-> {MainBranch, FeatBranch, LinkedBranch, SecondLinkedBranch},
                 remote |-> RepoId]
       /\ remote = [pushed |-> prs, prs |-> prs]
       /\ currentView \in (IF b = MainBranch THEN {"switch-branch"}
                           ELSE {"switch-branch", "create-ticket-from-branch"})
  /\ cfg = ValidConfig([k \in {RepoId} |-> WorkspaceName])
  /\ creds = [n \in {WorkspaceName} |-> Token]
  /\ jira = [issues |-> [k \in {Key1, Key2} |-> IF k = Key1 THEN Ticket1 ELSE Ticket2],
             created |-> 0, moved |-> 0]
  /\ context = getContext.ctx
  /\ isConfigured = TRUE
  /\ exited = FALSE
  /\ boot = "done"
  /\ v = InitialView(currentView)
  /\ sl = NoList
  /\ load = "running"
  /\ job = IF currentView = "switch-branch" THEN Joining({Call("listBranches", <<>>)}, {})
           ELSE Joining(LoadDataCalls, {})
  /\ visits = MaxVisits

NextJoin == CreateTicketFromBranchSettle \/ SwitchBranchSettle

SpecJoin == InitJoin /\ [][NextJoin]_vars

\* -------------------------------------------------- calls in flight
\* my-tickets and create-pr, each mounted on its own: the status commits, the
\* branch creation, the pushes and the pull-request creation under the keys
\* their useInput handlers read.
InitCreatePRMounted ==
  /\ git = [isRepo |-> TRUE, current |-> LinkedBranch,
            branches |-> {MainBranch, FeatBranch, LinkedBranch}, remote |-> RepoId]
  /\ cfg = ValidConfig([k \in {RepoId} |-> WorkspaceName])
  /\ creds = [n \in {WorkspaceName} |-> Token]
  /\ jira = [issues |-> [k \in {Key1, Key2} |-> IF k = Key1 THEN Ticket1 ELSE Ticket2],
             created |-> 0, moved |-> 0]
  /\ \E pushed \in {{}, {LinkedBranch}} : remote = [pushed |-> pushed, prs |-> {}]
  /\ currentView = "create-pr"
  /\ context = getContext.ctx
  /\ isConfigured = TRUE
  /\ exited = FALSE
  /\ boot = "done"
  /\ v = InitCreatePR
  /\ sl = NoList
  /\ load = "running"
  /\ job = Idle
  /\ visits = MaxVisits

NextInFlight ==
  \/ NextMyTickets
  \/ CreatePRLoad
  \/ \E k \in AppKeys : CreatePRInput(k)
  \/ CreatePRJob

SpecInFlight == (InitMyTicketsMounted \/ InitCreatePRMounted) /\ [][NextInFlight]_vars

\* The initial load with the effect's promise always settling: React runs the
\* mount effect once and every await of initialize() resolves or rejects.
SpecBoot == InitContext /\ [][Initialize]_vars /\ WF_vars(Initialize)

\* ================================================================ claims
\* One key event delivered to the mounted view's useInput.
ViewInput(k) ==
  \/ StartWorkInput(k)
  \/ NewTicketInput(k)
  \/ LinkBranchInput(k)
  \/ SwitchBranchInput(k)
  \/ CreateTicketFromBranchInput(k)
  \/ CreatePRInput(k)
  \/ UpdateTicketStatusInput(k)
  \/ MyTicketsInput(k)
  \/ SetupInput(k)
  \/ SettingsInput(k)

\* The submitting step each view reaches by its final confirmation.
SubmittingStep ==
  [view \in {"start-work", "new-ticket", "link-branch", "switch-branch",
             "create-ticket-from-branch", "create-pr", "update-ticket-status"} |->
     CASE view = "link-branch" -> "linking"
       [] view = "switch-branch" -> "switching"
       [] view = "update-ticket-status" -> "updating"
       [] OTHER -> "creating"]
Submitting == currentView \in DOMAIN SubmittingStep /\ v.step = SubmittingStep[currentView]

\* C1: while a view is in its submitting step, a key event changes neither the
\* view's fields (its step included) nor the router's current view, and the
\* step, when it changes, becomes done or error.
C1_SubmittingIgnoresKeys ==
  [][Submitting =>
       /\ \A k \in Keys : ViewInput(k) => UNCHANGED <<v, currentView>>
       /\ currentView' = currentView
       /\ v'.step # v.step => v'.step \in {"done", "error"}]_vars

\* C1: a submission whose first call has settled and whose second is in flight.
C1_Witness ==
  /\ currentView = "create-pr" /\ v.step = "creating" /\ job.pc = "prCreate"

\* C2: once the mounted view's step is done or error it keeps that step for as
\* long as the view stays mounted, whatever key is pressed and whatever load or
\* call settles.
C2_TerminalStepsStay ==
  [][(v.step \in {"done", "error"} /\ currentView' = currentView) => v'.step = v.step]_vars

\* C2: the success path has refreshed the context, the step is done, and the
\* view's load effect is running again over the new context object.
C2_Witness ==
  /\ currentView = "switch-branch" /\ v.step = "done" /\ load = "running"

Escape == Key("escape", "")
Enter == Key("return", "")

C4_DoneKeysReachMain ==
  [][\A k \in {Escape, Enter} :
       (v.step = "done" /\ ViewInput(k)) => currentView' = "main"]_vars

\* Where enter leads from the done step of the mounted view.
DoneEnterTarget ==
  IF currentView = "create-pr" /\ v.doneIndex = 0 THEN "update-ticket-status" ELSE "main"

\* C4 amended: in the done step escape makes main the current view, except in
\* the setup wizard, which does not answer it; enter makes main the current
\* view, except in create-pr with the cursor on its first entry, where it opens
\* update-ticket-status. Both keys are answered wherever this says so.
C4_DoneKeys ==
  /\ [][(v.step = "done" /\ ViewInput(Escape)) =>
          IF currentView = "setup" THEN UNCHANGED <<v, currentView>>
          ELSE currentView' = "main"]_vars
  /\ [][(v.step = "done" /\ ViewInput(Enter)) => currentView' = DoneEnterTarget]_vars
  /\ [](v.step = "done" /\ ~exited =>
          /\ ENABLED (ViewInput(Enter) /\ currentView' = DoneEnterTarget)
          /\ currentView # "setup" => ENABLED (ViewInput(Escape) /\ currentView' = "main"))

\* C4: create-pr has created the pull request and its done step has the cursor
\* on the second entry.
C4_Witness ==
  /\ currentView = "create-pr" /\ v.step = "done" /\ v.doneIndex = 1

\* C5: whenever main is the current view, the context's currentBranch is the
\* repository's current branch and its linkedTicketId is the ticket id
\* extracted from that branch.
C5_MainShowsRepository ==
  (currentView = "main" /\ context # NIL) =>
     /\ context.currentBranch = git.current
     /\ context.linkedTicketId =
          (IF git.current # NULL THEN extractTicketId(git.current) ELSE NULL)

\* C5: main is shown after a flow that ended in error although the repository
\* is on a branch the flow created.
C5_Witness ==
  /\ currentView = "main" /\ context # NIL /\ visits = MaxVisits
  /\ git.current \notin {MainBranch, FeatBranch, LinkedBranch, NULL}
  /\ context.currentBranch # git.current

Up == Key("up", "")
Down == Key("down", "")
ListOf(index, n) == [index |-> index, n |-> n]

\* The cursor and the number of entries of the list the mounted step shows;
\* n = 0 when it shows none.
ListShown ==
  IF sl.mounted THEN ListOf(sl.selectedIndex, Len(sl.filteredItems))
  ELSE CASE currentView = "main" /\ context # NIL ->
              ListOf(v.selectedIndex, Len(visibleItems))
         [] currentView = "start-work" /\ v.step = "confirm-branch" ->
              ListOf(v.confirmIndex, 3)
         [] currentView = "new-ticket" /\ v.step = "select-sprint" ->
              ListOf(v.sprintIndex, Len(v.activeSprints) + 1)
         [] currentView = "new-ticket" /\ v.step = "confirm" -> ListOf(v.confirmIndex, 3)
         [] currentView = "link-branch" /\ v.step = "confirm-rename" ->
              ListOf(v.confirmIndex, 2)
         [] currentView = "switch-branch" /\ v.step = "list" ->
              ListOf(v.selectedIndex, Len(visibleBranches))
         [] currentView = "create-ticket-from-branch" /\ v.step = "select-type" ->
              ListOf(v.selectedTypeIndex, Len(v.issueTypes))
         [] currentView = "create-ticket-from-branch" /\ v.step = "select-sprint" ->
              ListOf(v.selectedSprintIndex, Len(v.sprints))
         [] currentView = "create-ticket-from-branch" /\ v.step = "confirm" ->
              ListOf(v.confirmIndex, 2)
         [] currentView = "create-pr" /\ v.step = "push-needed" -> ListOf(v.pushIndex, 2)
         [] currentView = "create-pr" /\ v.step = "confirm" -> ListOf(v.confirmIndex, 2)
         [] currentView = "create-pr" /\ v.step = "done" -> ListOf(v.doneIndex, 2)
         [] currentView = "update-ticket-status" /\ v.step = "select" ->
              ListOf(v.selectedIndex, Len(v.transitions))
         [] OTHER -> ListOf(0, 0)

\* One key event delivered to whatever is mounted.
KeyEvent(k) == ViewInput(k) \/ MainMenuInput(k)

\* C6: in every step that shows a list of n >= 1 entries with the cursor on
\* one of them, up moves the cursor from 0 to n-1 and otherwise one back, and
\* down moves it from n-1 to 0 and otherwise one forward.
C6_CursorIsCircular ==
  [][LET index == ListShown.index
         n == ListShown.n
     IN  (n >= 1 /\ index \in 0..(n - 1)) =>
           /\ KeyEvent(Up) => ListShown'.index = (IF index = 0 THEN n - 1 ELSE index - 1)
           /\ KeyEvent(Down) => ListShown'.index = (IF index = n - 1 THEN 0 ELSE index + 1)
    ]_vars

\* C6: the three-entry confirm list of new-ticket with the cursor on its last
\* entry, which up and down reach only through the middle one.
C6_Witness ==
  /\ currentView = "new-ticket" /\ v.step = "confirm" /\ v.confirmIndex = 2

\* The confirm step of the four views that have one.
ConfirmStep ==
  [view \in {"start-work", "new-ticket", "create-ticket-from-branch", "create-pr"} |->
     IF view = "start-work" THEN "confirm-branch" ELSE "confirm"]
InConfirm == currentView \in DOMAIN ConfirmStep /\ v.step = ConfirmStep[currentView]
\* The number of entries of the mounted confirm step.
ConfirmEntries == IF currentView \in {"start-work", "new-ticket"} THEN 3 ELSE 2
\* The interactive step the mounted confirm step was entered from.
StepBeforeConfirm ==
  CASE currentView = "start-work" -> "select-ticket"
    [] currentView = "new-ticket" ->
         IF Len(v.activeSprints) > 0 THEN "select-sprint" ELSE "enter-description"
    [] currentView = "create-ticket-from-branch" -> "edit-due-date"
    [] OTHER -> "edit-body"
\* No call is issued and nothing outside the view changes.
NoCall == job' = Idle /\ UNCHANGED <<env, context>>

\* C7 as stated: in each of the four confirm steps, enter on the last entry
\* sets the step to the previous interactive step, issues no call and leaves
\* the router's current view unchanged.
C7_LastEntryGoesBack ==
  [][(InConfirm /\ v.confirmIndex = ConfirmEntries - 1 /\ ViewInput(Enter)) =>
       /\ currentView' = currentView
       /\ v'.step = StepBeforeConfirm
       /\ NoCall]_vars

\* C7 amended: entry 0 of every confirm step starts the submission (in
\* start-work and new-ticket the one that also checks the branch out); enter on
\* the last entry issues no call, and it sets the step to the previous
\* interactive step with the view still mounted in start-work and new-ticket,
\* but makes main the router's current view in create-ticket-from-branch and
\* create-pr, whose last entry is Cancel. Enter is answered in both positions.
C7_ConfirmEntries ==
  /\ [][(InConfirm /\ v.confirmIndex = ConfirmEntries - 1 /\ ViewInput(Enter)) =>
          /\ NoCall
          /\ IF currentView \in {"start-work", "new-ticket"}
             THEN currentView' = currentView /\ v'.step = StepBeforeConfirm
             ELSE currentView' = "main"]_vars
  /\ [][(InConfirm /\ v.confirmIndex = 0 /\ ViewInput(Enter)) =>
          /\ currentView' = currentView
          /\ v'.step = SubmittingStep[currentView]
          /\ job'.pc # "idle"
          /\ currentView = "start-work" => job'.checkout
          /\ currentView = "new-ticket" => job'.createBranch]_vars
  /\ [](InConfirm /\ ~exited /\ v.confirmIndex \in {0, ConfirmEntries - 1} =>
          ENABLED (ViewInput(Enter) /\ v'.step # v.step))

\* C7: the confirm step of new-ticket, entered from the sprint selection, with
\* the cursor on its last entry.
C7_Witness ==
  /\ currentView = "new-ticket" /\ v.step = "confirm" /\ v.confirmIndex = 2
  /\ Len(v.activeSprints) > 0

\* The interactive step from which a forward move enters the mounted step,
\* with "" for a step that has none; `wizard` is what precedes the first form
\* of the setup wizard.
StepBeforeWith(wizard) ==
  CASE currentView = "start-work" /\ v.step = "confirm-branch" -> "select-ticket"
    [] currentView = "link-branch" /\ v.step = "confirm-rename" -> "select-ticket"
    [] currentView = "new-ticket" /\ v.step = "enter-title" -> "select-type"
    [] currentView = "new-ticket" /\ v.step = "enter-description" -> "enter-title"
    [] currentView = "new-ticket" /\ v.step = "select-sprint" -> "enter-description"
    [] currentView = "new-ticket" /\ v.step = "confirm" ->
         IF Len(v.activeSprints) > 0 THEN "select-sprint" ELSE "enter-description"
    [] currentView = "create-ticket-from-branch" /\ v.step = "edit-title" -> "select-type"
    [] currentView = "create-ticket-from-branch" /\ v.step = "edit-description" ->
         "edit-title"
    [] currentView = "create-ticket-from-branch" /\ v.step = "select-sprint" ->
         "edit-description"
    [] currentView = "create-ticket-from-branch" /\ v.step = "edit-start-date" ->
         IF Len(v.sprints) > 0 THEN "select-sprint" ELSE "edit-description"
    [] currentView = "create-ticket-from-branch" /\ v.step = "edit-due-date" ->
         "edit-start-date"
    [] currentView = "create-ticket-from-branch" /\ v.step = "confirm" -> "edit-due-date"
    [] currentView = "create-pr" /\ v.step = "edit-body" -> "edit-title"
    [] currentView = "create-pr" /\ v.step = "confirm" -> "edit-body"
    [] currentView = "setup" /\ v.step = "domain" -> wizard
    [] currentView = "setup" /\ v.step = "email" -> "domain"
    [] currentView = "setup" /\ v.step = "token" -> "email"
    [] currentView = "setup" /\ v.step = "projects" -> "token"
    [] currentView = "settings" /\ v.step = "view-config" -> "menu"
    [] currentView = "my-tickets" /\ v.step = "detail" /\ ~v.isEditingStatus
         /\ ~v.isSavingStatus -> "list"
    [] currentView = "my-tickets" /\ v.step = "children" -> "detail"
    [] currentView = "my-tickets" /\ v.step = "child-detail" /\ ~v.isEditingChildStatus
         /\ ~v.isSavingStatus -> "children"
    [] OTHER -> ""
\* The steps in which a view waits for a key, in the order in which the views
\* move forward through them.
InteractiveSteps ==
  <<"welcome", "menu", "list", "push-needed", "select-ticket", "select-type", "domain",
    "email", "token", "projects", "view-config", "detail", "children", "child-detail",
    "confirm-branch", "confirm-rename", "enter-title", "edit-title", "enter-description",
    "edit-description", "edit-body", "select-sprint", "edit-start-date", "edit-due-date",
    "confirm">>
StepRank(step) ==
  IF \E i \in 1..Len(InteractiveSteps) : InteractiveSteps[i] = step
  THEN CHOOSE i \in 1..Len(InteractiveSteps) : InteractiveSteps[i] = step
  ELSE 0
\* Escape moves the mounted view one step back and changes none of its fields.
EscapeGoesBackTo(step) ==
  ViewInput(Escape) => currentView' = currentView /\ v' = [v EXCEPT !.step = step]
\* A key that moves the mounted view forward from one interactive step into
\* another enters a step whose preceding step is the one left.
ForwardMovesAgree ==
  (/\ currentView' = currentView
   /\ StepRank(v.step) > 0 /\ StepRank(v'.step) > StepRank(v.step)
   /\ \E k \in Keys \ {Escape} : ViewInput(k)) => StepBeforeWith("welcome")' = v.step

\* C8 as stated: in every view, escape pressed in an interactive step that was
\* entered from an earlier interactive step sets the step to that step, the
\* inverse of the forward move, and changes no other field of the view.
C8_EscapeGoesBack ==
  /\ [][/\ StepBeforeWith("welcome") # "" => EscapeGoesBackTo(StepBeforeWith("welcome"))
        /\ ForwardMovesAgree]_vars
  /\ [](StepBeforeWith("welcome") # "" /\ ~exited =>
          ENABLED (ViewInput(Escape) /\ v'.step = StepBeforeWith("welcome")))

\* C8 amended: escape sets the step to the one the mounted step was entered
\* from and changes no other field of the view, and it is answered, in every
\* interactive step entered from an earlier one except two: the domain step of
\* the setup wizard, entered from welcome, ignores escape; and the edit-title
\* step of create-pr makes main the current view, also when it was entered
\* from push-needed. In my-tickets this is stated for detail and child-detail
\* while no status is being edited or saved.
C8_EscapeGoesBackWhereOffered ==
  /\ [][/\ StepBeforeWith("") # "" => EscapeGoesBackTo(StepBeforeWith(""))
        /\ ForwardMovesAgree
        /\ (currentView = "setup" /\ v.step = "domain" /\ ViewInput(Escape)) =>
              UNCHANGED <<v, currentView>>
        /\ (currentView = "create-pr" /\ v.step = "edit-title" /\ ViewInput(Escape)) =>
              currentView' = "main"]_vars
  /\ [](StepBeforeWith("") # "" /\ ~exited =>
          ENABLED (ViewInput(Escape) /\ v'.step = StepBeforeWith("")))

\* C8: create-ticket-from-branch was moved forward past its sprint list into
\* the start-date step with a title entered.
C8_Witness ==
  /\ currentView = "create-ticket-from-branch" /\ v.step = "edit-start-date"
  /\ Len(v.sprints) > 0 /\ v.title # <<>>

\* C9: in a searchable SelectList, after any sequence of keys, an empty query
\* displays the input items in their order and a non-empty query displays what
\* the search finds in the full input list; a key that changes the query to a
\* non-empty one puts the cursor on index 0; and the cursor is on a displayed
\* item whenever an item is displayed.
C9_SearchRefilters ==
  /\ [](sl.mounted /\ sl.searchable =>
          /\ sl.filteredItems = (IF sl.searchQuery = <<>> THEN v.tickets
                                 ELSE FuseSearch(v.tickets, sl.searchQuery))
          /\ Len(sl.filteredItems) > 0 => HasSelection(sl))
  /\ [][(sl.mounted /\ sl.searchable /\ sl'.searchQuery # sl.searchQuery
         /\ sl'.searchQuery # <<>>) => sl'.selectedIndex = 0]_vars

\* C9: a query has narrowed a list of two items to its second item.
C9_Witness ==
  /\ sl.mounted /\ sl.searchable /\ sl.searchQuery # <<>>
  /\ Len(v.tickets) = 2 /\ sl.filteredItems = <<v.tickets[2]>>

\* C10: in start-work, when the best-effort block settles after the branch was
\* created, the handler goes on to refresh the context with the view's fields
\* as they were, whether or not the token was found and the transition made,
\* and the refresh that succeeds ends in step done; a failing transition is
\* among the outcomes. In switch-branch a load whose branch listing succeeded
\* ends in step list whatever the pull-request lookup and the ticket lookups
\* did, and a load in which both failed is among the outcomes.
C10_BestEffortFailuresSwallowed ==
  /\ [][/\ (job.pc = "transition" /\ StartWorkJob) =>
             v' = v /\ job'.pc = "refreshContext"
        /\ (job.pc = "refreshContext" /\ StartWorkJob /\ ~getContext.raised) =>
             v'.step = "done"
        /\ \A ghOk \in BOOLEAN, failed \in SUBSET BranchTicketIds :
             (SwitchBranchLoad /\ git.isRepo /\ loadBranches(TRUE, ghOk, failed)) =>
                v'.step = "list" /\ v'.error = v.error]_vars
  /\ [](currentView = "start-work" /\ job.pc = "transition" /\ ~exited =>
          ENABLED (StartWorkJob /\ jira' = jira /\ job'.pc = "refreshContext"))
  /\ [](currentView = "switch-branch" /\ load = "running" /\ git.isRepo /\ ~exited =>
          ENABLED (SwitchBranchLoad /\ loadBranches(TRUE, FALSE, BranchTicketIds)
                   /\ v'.step = "list"))

\* C10: start-work is done on the branch it created and checked out while the
\* ticket has kept its status, the transition having failed.
C10_Witness ==
  /\ currentView = "start-work" /\ v.step = "done"
  /\ git.current = v.branchName
  /\ jira.issues[v.selectedTicket.key].status # "In Progress"

\* ---------------------------------------------------------------- C11
\* The calls the views treat as their primary action.
PrimaryCalls == {"createIssue", "createBranch", "renameBranch", "checkoutBranch", "prCreate"}

\* The message of the exception a failing primary call throws: the HTTP
\* client's for the tracker and for gh, git's for the branch commands.
ThrownBy(call) ==
  IF call \in {"createBranch", "renameBranch", "checkoutBranch"} THEN GitError ELSE CallError

\* The views that load the configuration in the same step as the call.
LoadsConfigFirst ==
  job.pc \in {"createBranch", "renameBranch"} /\ currentView # "link-branch"

\* A job step in which the primary call in flight fails: the call leaves the
\* repository, the tracker and the remote as they were (a checkout fails when
\* the branch is missing; a checkout of the current branch succeeds and
\* changes nothing).
PrimaryCallFails ==
  /\ job.pc \in PrimaryCalls
  /\ currentView # "my-tickets"
  /\ LoadsConfigFirst => ConfigLoads
  /\ IF job.pc = "checkoutBranch"
     THEN ~GitCanCheckout(IF currentView = "switch-branch" THEN v.selectedBranch
                          ELSE v.branchName)
     ELSE git' = git /\ jira' = jira /\ remote' = remote
  /\ \/ StartWorkJob \/ NewTicketJob \/ LinkBranchJob \/ SwitchBranchJob
     \/ CreateTicketFromBranchJob \/ CreatePRJob

\* C11: when a primary action fails (ticket creation, branch creation,
\* rename, checkout, pull-request creation) the view's step becomes error,
\* the stored message is the message the failing call threw, and no call is
\* left in flight: the call is issued again only by a new confirmation.
C11_PrimaryFailureSurfaces ==
  [][PrimaryCallFails =>
       /\ v'.step = "error"
       /\ v'.error = ThrownBy(job.pc)
       /\ job' = Idle]_vars

\* The rename of create-ticket-from-branch is in flight with the configuration
\* readable, so that only the rename itself can fail.
C11_Witness ==
  /\ currentView = "create-ticket-from-branch" /\ job.pc = "renameBranch"
  /\ ConfigLoads /\ ~exited

\* ---------------------------------------------------------------- C12
\* A step in which an asynchronous call of a view fails: the configuration
\* load of the settings view, or the context refresh that ends a job.
ViewCallFails ==
  \/ SettingsJob /\ ~ConfigLoads
  \/ /\ job.pc = "refreshContext" /\ getContext.raised
     /\ \/ StartWorkJob \/ NewTicketJob \/ LinkBranchJob \/ SwitchBranchJob
        \/ CreateTicketFromBranchJob \/ MyTicketsJob

\* C12: a failure of an asynchronous call of a view or of the router puts
\* the view in the error step with a non-empty message; the router's initial
\* load never ends in a rejection nobody handles.
C12_AsyncFailuresBecomeError ==
  /\ [][ViewCallFails => v'.step = "error" /\ v'.error # ""]_vars
  /\ [](boot # "failed")

\* The settings view is loading the configuration and the file does not
\* pass validation.
C12_Witness ==
  currentView = "settings" /\ job.pc # "idle" /\ ~ConfigLoads /\ ~exited

\* ---------------------------------------------------------------- C13
\* C13: getContext never raises: whatever the repository and the
\* configuration file are, it resolves to a context, and a field whose source
\* failed holds its default.
C13_GetContextNeverRaises ==
  /\ ~getContext.raised
  /\ ~ConfigLoads => /\ getContext.ctx.workspaceName = NULL
                     /\ getContext.ctx.workspace = NIL
                     /\ getContext.ctx.commitsAhead = 0

\* A repository with an origin remote and a configuration file that does not
\* load: the lookup of the workspace has to read the file.
C13_Witness ==
  git.isRepo /\ git.remote # NULL /\ ~ConfigLoads

\* ---------------------------------------------------------------- C14
\* C14: outside a git repository getContext answers isGitRepo = false with
\* every other field at its default (null, commitsAhead 0), and the only
\* collaborator it invokes is the repository test: no other git query, no
\* configuration load.
C14_NoRepoNoCalls ==
  ~git.isRepo =>
    /\ ~getContext.raised
    /\ getContext.ctx = [isGitRepo |-> FALSE, currentBranch |-> NULL,
                         repoIdentifier |-> NULL, workspaceName |-> NULL,
                         workspace |-> NIL, linkedTicketId |-> NULL,
                         commitsAhead |-> 0]
    /\ getContextCalls = {"isGitRepo"}

\* The router has stored the context of a directory that is not a
\* repository, with a configuration file present.
C14_Witness ==
  /\ ~git.isRepo /\ ConfigExists
  /\ boot = "done" /\ currentView = "main"
  /\ context = getContext.ctx /\ ~context.isGitRepo

\* ---------------------------------------------------------------- C15
\* The wildcard key of an identifier owner/repo is owner/*.
WildcardKey(id) ==
  LET slash == CHOOSE i \in 1..Len(id) : id[i] = "/" /\ \A j \in 1..(i - 1) : id[j] # "/"
  IN  SubSeq(id, 1, slash) \o <<"*">>

\* The name a table of mappings gives an identifier when has(key) says which
\* keys count as mapped: the exact key first, then the wildcard key.
ExactThenWildcard(id, has(_)) ==
  IF has(id) THEN cfg.mappings[id]
  ELSE IF has(WildcardKey(id)) THEN cfg.mappings[WildcardKey(id)]
  ELSE NULL

Stored(key) == key \in DOMAIN cfg.mappings
StoredNonEmpty(key) == key \in DOMAIN cfg.mappings /\ cfg.mappings[key] # <<>>

\* The context the router stored names the workspace that has(_) resolves, and
\* the settings are looked up only when a name was resolved.
ResolvesBy(has(_)) ==
  /\ ConfigLoads =>
       \A id \in {RepoId, OtherRepo} : resolveWorkspace(id) = ExactThenWildcard(id, has)
  /\ boot = "done" /\ isConfigured /\ context.isGitRepo /\ git.remote # NULL =>
       /\ context.workspaceName = ExactThenWildcard(git.remote, has)
       /\ "getWorkspaceConfig" \in getContextCalls <=> context.workspaceName # NULL
       /\ context.workspaceName = NULL => context.workspace = NIL

\* C15 (as stated): resolution returns the mapping stored for the exact key
\* owner/repo if one exists, otherwise the one stored for owner/*, otherwise
\* null; the workspace settings are fetched only when a name was resolved.
C15_ExactThenWildcard == ResolvesBy(Stored)

\* C15 (amended): the same, where a key whose stored name is the empty string
\* counts as not mapped.
C15_ExactThenWildcardNonEmpty == ResolvesBy(StoredNonEmpty)

\* The router stored a context for a repository that has both an exact and
\* a wildcard mapping, with different names.
C15_Witness ==
  /\ boot = "done" /\ isConfigured /\ context.isGitRepo /\ git.remote = RepoId
  /\ ConfigLoads
  /\ RepoId \in DOMAIN cfg.mappings /\ WildcardKey(RepoId) \in DOMAIN cfg.mappings
  /\ cfg.mappings[RepoId] = <<"b">> /\ cfg.mappings[WildcardKey(RepoId)] = WorkspaceName
  /\ context.workspaceName = <<"b">>

\* ---------------------------------------------------------------- C16
\* C16: in every context the router holds (after the initial load, after a
\* refresh, after setup completes) workspace # null implies
\* workspaceName # null.
C16_WorkspaceHasName ==
  context # NIL => (context.workspace # NIL => context.workspaceName # NULL)

\* A view has refreshed the context after its job and the refreshed context
\* carries workspace settings.
C16_Witness ==
  /\ currentView \in {"start-work", "new-ticket", "switch-branch", "link-branch"}
  /\ v.step = "done"
  /\ context # NIL /\ context = getContext.ctx /\ context.workspace # NIL

\* ---------------------------------------------------------------- C17
\* The prefixes of b made of an uppercase letter, uppercase letters or digits,
\* a hyphen, and one or more digits.
TicketPrefixes(b) ==
  {n \in 3..Len(b) :
     \E k \in 1..(n - 2) :
       /\ b[1] \in UpperChars
       /\ \A i \in 2..k : b[i] \in UpperChars \cup DigitChars
       /\ b[k + 1] = "-"
       /\ \A i \in (k + 2)..n : b[i] \in DigitChars}

LongestTicketPrefix(b) ==
  IF TicketPrefixes(b) = {} THEN NULL
  ELSE SubSeq(b, 1, CHOOSE n \in TicketPrefixes(b) : \A m \in TicketPrefixes(b) : m <= n)

\* C17: on every branch name both implementations of the ticket-id
\* extraction (slug utility and context resolver) return the longest prefix
\* of the form LETTER (LETTER|DIGIT)* '-' DIGIT+, or null when the name has
\* no such prefix; the context the router stores carries that value.
C17_ExtractionsAgree ==
  /\ extractTicketId(git.current) = LongestTicketPrefix(git.current)
  /\ ContextExtractTicketId(git.current) = LongestTicketPrefix(git.current)
  /\ boot = "done" => context.linkedTicketId = LongestTicketPrefix(git.current)

\* The router stored the context of a branch whose name goes on after a
\* two-digit ticket number.
C17_Witness ==
  /\ boot = "done"
  /\ git.current = <<"A", "-", "1", "1", "/">>
  /\ context.linkedTicketId = <<"A", "-", "1", "1">>

\* ---------------------------------------------------------------- C18
\* A slug of at most max characters: only a-z, 0-9 and '-', no hyphen at
\* either end, no two hyphens in a row.
WellFormedSlug(slug, max) ==
  /\ \A i \in 1..Len(slug) : slug[i] \in LowerChars \cup DigitChars \cup {"-"}
  /\ slug # <<>> => slug[1] # "-" /\ slug[Len(slug)] # "-"
  /\ \A i \in 1..(Len(slug) - 1) : ~(slug[i] = "-" /\ slug[i + 1] = "-")
  /\ Len(slug) <= max

\* C18: for every text and every maximum length the output of slugify has
\* only characters of a-z, 0-9 and '-', neither starts nor ends with '-',
\* has no two consecutive '-', and is at most the maximum long; the branch
\* the view creates carries such a slug after the ticket key.
C18_SlugWellFormed ==
  /\ \A max \in 0..MaxSlug : WellFormedSlug(slugify(v.title, max), max)
  /\ v.branchName # <<>> =>
       /\ v.branchName = v.createdTicket.key \o <<"/">>
                           \o slugify(v.title, cfg.slugMaxLength)
       /\ v.step = "done" => v.branchName \in git.branches
       /\ WellFormedSlug(SubSeq(v.branchName, Len(v.createdTicket.key) + 2,
                                Len(v.branchName)), cfg.slugMaxLength)

\* The branch was created for a title whose slug is cut at a hyphen: "b 1"
\* within two characters.
C18_Witness ==
  /\ v.title = <<"b", " ", "1">> /\ cfg.slugMaxLength = 2
  /\ v.branchName = CreatedKey(1) \o <<"/", "b">>
  /\ v.step = "done" /\ v.branchName \in git.branches

\* ---------------------------------------------------------------- C19
\* The branch name start-work derives from the selected ticket.
StartWorkBranch ==
  v.selectedTicket.key \o <<"/">> \o slugify(v.selectedTicket.summary, 50)

ProjectPart(key) == SubSeq(key, 1, (CHOOSE i \in 1..Len(key) : key[i] = "-") - 1)
NumberPart(key) ==
  LET digits == SubSeq(key, Len(ProjectPart(key)) + 2, Len(key))
      Pow10(n) == IF n = 0 THEN 1 ELSE IF n = 1 THEN 10 ELSE 100
      Sum[i \in 0..Len(digits)] ==
        IF i = 0 THEN 0
        ELSE Sum[i - 1] + (IndexOf(DigitSeq, digits[i]) - 1) * Pow10(Len(digits) - i)
  IN  Sum[Len(digits)]

\* a comes before b alphabetically (digits before letters, a prefix first).
AlphaBefore(a, b) ==
  \E k \in 1..(Len(b)) :
    /\ \A i \in 1..(k - 1) : i <= Len(a) /\ a[i] = b[i]
    /\ \/ k = Len(a) + 1
       \/ k <= Len(a) /\ CharRank(a[k]) < CharRank(b[k])

IsPermutation(out, in) ==
  /\ Len(out) = Len(in)
  /\ \E f \in [1..Len(in) -> 1..Len(in)] :
       /\ \A i, j \in 1..Len(in) : i # j => f[i] # f[j]
       /\ \A i \in 1..Len(in) : out[i] = in[f[i]]

TicketsOrdered(list) ==
  \A i, j \in 1..Len(list) :
    i < j =>
      \/ AlphaBefore(ProjectPart(list[i].key), ProjectPart(list[j].key))
      \/ /\ ProjectPart(list[i].key) = ProjectPart(list[j].key)
         /\ NumberPart(list[i].key) >= NumberPart(list[j].key)

\* C20: the list sortTicketsByKey returns is a permutation of the list it is
\* given, ordered by project ascending alphabetically and, within a project,
\* by number descending; the list it is given is the same list after the
\* call (the view shows the sorted list, the answer is as the tracker sent it).
C20_SortedPermutation ==
  /\ [][\A list \in SortInputs :
          /\ v'.step = "select-ticket"
          /\ v'.tickets = sortTicketsByKey(Issues(list))
          /\ StartWorkLoaded([ok |-> TRUE, list |-> list])
          => /\ IsPermutation(v'.tickets, Issues(list))
             /\ TicketsOrdered(v'.tickets)
             /\ sl'.filteredItems = v'.tickets
             /\ Issues(list)' = Issues(list)]_vars
  /\ [](v.step = "select-ticket" => TicketsOrdered(v.tickets))

\* The spec's example: A-1, B-5, A-10 was answered and the view lists
\* A-10, A-1, B-5.
C20_Witness ==
  /\ v.step = "select-ticket" /\ Len(v.tickets) = 3
  /\ v.tickets[1].key = <<"A", "-", "1", "0">>
  /\ v.tickets[2].key = <<"A", "-", "1">>
  /\ v.tickets[3].key = <<"B", "-", "5">>

\* ---------------------------------------------------------------- C21
\* C21: the router starts in view loading; when the configuration cannot be
\* loaded (absent or failing validation) the initial load makes setup the
\* current view, otherwise main with a non-null context; in every case the
\* router eventually leaves loading.
C21_StartRoutes ==
  /\ [](boot = "pending" => currentView = "loading")
  /\ [][Initialize =>
          IF ConfigLoads
          THEN currentView' = "main" /\ context' # NIL
          ELSE currentView' = "setup"]_vars
  /\ <>(currentView # "loading")

\* The initial load has ended in main although the configuration file does
\* not pass validation.
C21_Witness ==
  boot = "done" /\ ConfigExists /\ ~ConfigLoads /\ currentView = "main"

\* ---------------------------------------------------------------- C22
\* The quit key.
Quit == Key("char", "q")

\* C22: the process exits only by the key 'q' pressed while the router's
\* current view is main: a step that exits is that key event in main and is
\* the event of no other key, and in every other view every key, 'q' typed
\* into a search box or a text field included, leaves the process running.
C22_ExitOnlyByQuitInMain ==
  /\ [][exited' # exited =>
          /\ currentView = "main" /\ exited'
          /\ MainMenuInput(Quit)
          /\ \A k \in Keys \ {Quit} : ~MainMenuInput(k)]_vars
  /\ [][currentView # "main" /\ ViewInput(Quit) => ~exited']_vars
  /\ [](currentView = "main" /\ ~exited => ENABLED (MainMenuInput(Quit) /\ exited'))

\* 'q' was typed into the search box of a ticket list and the process runs.
C22_Witness ==
  /\ currentView = "start-work" /\ v.step = "select-ticket"
  /\ sl.mounted /\ sl.searchQuery = <<"q">>
  /\ ~exited

\* ---------------------------------------------------------------- C23
\* The step a view starts at.
FirstStep(view) ==
  CASE view = "settings" -> "menu"
    [] view = "setup" -> "welcome"
    [] view = "main" -> "menu"
    [] OTHER -> "loading"

\* C23: whenever the router switches to a view, re-entering a view visited
\* earlier included, the view starts at its first step (loading; menu for
\* settings; welcome for setup) with every view-local field at its initial
\* value, no job of the view left behind and an empty search box.
C23_ViewsStartFresh ==
  [][currentView' # currentView =>
       /\ v'.step = FirstStep(currentView')
       /\ v' = InitialView(currentView')
       /\ job' = Idle
       /\ sl'.searchQuery = <<>> /\ sl'.selectedIndex = 0
       /\ load' = "running" <=> currentView' \in LoadViews]_vars

\* The main menu was re-entered after a visit to start-work in which a search
\* had been typed or a ticket chosen: its cursor is back on the first entry.
C23_Witness ==
  /\ currentView = "main" /\ visits = MaxVisits /\ boot = "done"
  /\ v = InitialView("main")

\* ---------------------------------------------------------------- C24
Left == Key("left", "")
Right == Key("right", "")

\* The detail step on show, its ticket, its transitions and its editing state.
InDetail == currentView = "my-tickets" /\ v.step \in {"detail", "child-detail"} /\ ~exited
Shown == IF v.step = "detail" THEN v.selectedTicket ELSE v.selectedChildTicket
ShownTransitions ==
  IF v.step = "detail" THEN v.availableTransitions ELSE v.childAvailableTransitions
Editing == IF v.step = "detail" THEN v.isEditingStatus ELSE v.isEditingChildStatus
Cursor ==
  IF v.step = "detail" THEN v.selectedTransitionIndex ELSE v.childSelectedTransitionIndex

\* The statuses the view and the tracker hold are the same before and after.
StatusesUnchanged ==
  /\ jira' = jira
  /\ v'.tickets = v.tickets /\ v'.filteredTickets = v.filteredTickets
  /\ v'.childIssues = v.childIssues
  /\ v'.selectedTicket = v.selectedTicket /\ v'.selectedChildTicket = v.selectedChildTicket

\* C24: in the detail and child-detail steps, left or right with a transition
\* available enters status editing; escape while editing leaves editing with
\* the cursor at -1, starts no call, changes no status and keeps the step;
\* enter while editing starts exactly one transition call, for the ticket on
\* show with the id of the transition under the cursor.
C24_StatusEditing ==
  /\ [][InDetail /\ ~v.isSavingStatus =>
          /\ Len(ShownTransitions) > 0 /\ (MyTicketsInput(Left) \/ MyTicketsInput(Right)) =>
               Editing' /\ Cursor' \in 0..(Len(ShownTransitions) - 1)
                        /\ v'.step = v.step /\ job' = job /\ StatusesUnchanged
          /\ Editing /\ MyTicketsInput(Escape) =>
               ~Editing' /\ Cursor' = -1 /\ v'.step = v.step
                         /\ job' = Idle /\ StatusesUnchanged
          /\ Editing /\ MyTicketsInput(Enter) =>
               /\ job'.pc = "transitionIssueById"
               /\ job'.ticket = Shown
               /\ job'.transition.id = ShownTransitions[Cursor + 1].id
               /\ v'.isSavingStatus /\ v'.step = v.step /\ StatusesUnchanged]_vars
  /\ [](InDetail /\ ~v.isSavingStatus /\ Len(ShownTransitions) > 0 =>
          ENABLED (MyTicketsInput(Left) /\ Editing'))
  /\ [](InDetail /\ ~v.isSavingStatus /\ Editing /\ jira.moved < MaxMoves =>
          ENABLED (MyTicketsInput(Enter) /\ job'.pc = "transitionIssueById"))

\* The user is choosing a status and the list of transitions, replaced by a late
\* answer, is shorter than the cursor: no transition is under the cursor.
C24_Witness ==
  /\ InDetail /\ Editing /\ ~v.isSavingStatus /\ jira.moved < MaxMoves
  /\ Cursor >= Len(ShownTransitions)

\* ---------------------------------------------------------------- C25
\* The statuses a list holds for the ticket `key`.
StatusesOf(list, key) == {list[i].status : i \in {j \in 1..Len(list) : list[j].key = key}}
HeldStatus(t, key) == IF t # NIL /\ t.key = key THEN {t.status} ELSE {}
AllKeys == DOMAIN jira.issues

\* The step in which transitionIssueById has succeeded and handleSaveStatus
\* rewrites the view, and the step in which its reload of the transitions ends.
SaveSucceeds == job.pc = "transitionIssueById" /\ job'.pc = "reloadTransitions"
ReloadEnds == job.pc = "reloadTransitions" /\ job'.pc = "idle"

\* After the save: the statuses held for the ticket in the given places are
\* the destination status, and every other ticket keeps its status there.
SavedIn(lists, singles) ==
  LET key == job.ticket.key
      dest == job.transition.toStatus
  IN  /\ \A f \in lists : StatusesOf(v'[f], key) \subseteq {dest}
      /\ \A f \in singles : HeldStatus(v'[f], key) \subseteq {dest}
      /\ \A k \in AllKeys \ {key} :
           /\ \A f \in {"tickets", "filteredTickets", "childIssues"} :
                StatusesOf(v'[f], k) = StatusesOf(v[f], k)
           /\ \A f \in {"selectedTicket", "selectedChildTicket"} :
                HeldStatus(v'[f], k) = HeldStatus(v[f], k)

\* The transitions shown for the saved ticket are the ones fetched after it.
Refetched ==
  LET key == job.ticket.key
      fetched == {getAvailableTransitions(key, ok) : ok \in BOOLEAN}
  IN  /\ HeldStatus(v.selectedTicket, key) # {} => v'.availableTransitions \in fetched
      /\ HeldStatus(v.selectedChildTicket, key) # {} =>
           v'.childAvailableTransitions \in fetched

\* C25 (as stated): after a successful status transition the ticket's status is
\* the destination status in every place the view holds it (ticket list,
\* filtered list, selected ticket, child list, selected child), the transitions
\* shown for it are the refetched ones, and no other ticket's status changes.
C25_StatusReplacedEverywhere ==
  [][/\ SaveSucceeds =>
          SavedIn({"tickets", "filteredTickets", "childIssues"},
                  {"selectedTicket", "selectedChildTicket"})
     /\ ReloadEnds => Refetched]_vars

\* C25 (amended): as above, with the child list rewritten only when the saved
\* ticket is the selected child; a child list that holds the ticket while
\* another child, or none, is selected keeps the old status until it is
\* fetched again.
C25_StatusReplacedWhereShown ==
  [][/\ SaveSucceeds =>
          /\ SavedIn({"tickets", "filteredTickets"}, {"selectedTicket", "selectedChildTicket"})
          /\ HeldStatus(v.selectedChildTicket, job.ticket.key) # {} =>
               SavedIn({"childIssues"}, {})
     /\ ReloadEnds => Refetched]_vars

\* A save from child-detail has succeeded and been reloaded: the child, which is
\* also in the ticket list, shows its new status in both.
C25_Witness ==
  /\ currentView = "my-tickets" /\ v.step = "child-detail" /\ job.pc = "idle"
  /\ ~v.isSavingStatus /\ jira.moved > 0
  /\ v.selectedChildTicket # NIL
  /\ v.selectedChildTicket.status = jira.issues[v.selectedChildTicket.key].status
  /\ StatusesOf(v.tickets, v.selectedChildTicket.key) = {v.selectedChildTicket.status}
  /\ StatusesOf(v.childIssues, v.selectedChildTicket.key) = {v.selectedChildTicket.status}
  /\ v.selectedChildTicket.status # "To Do"

\* ---------------------------------------------------------------- C26
InCreatePR == currentView = "create-pr" /\ ~exited
\* The pull-request-creation call is outstanding.
PRCreateCalled == InCreatePR /\ job.pc = "prCreate"
\* The push of a submission is outstanding.
SubmissionPushes == InCreatePR /\ job.pc = "push" /\ v.step = "creating"

\* C26: in create-pr the pull-request-creation call is made only after the push
\* of the same submission has succeeded (at once or on the retry) or reported
\* that everything is up to date; a push that fails otherwise makes the step
\* error and the call is not made; pull requests are created by that call only.
C26_PushBeforePRCreate ==
  /\ [][/\ PRCreateCalled' /\ ~PRCreateCalled =>
             /\ SubmissionPushes /\ v' = v
             /\ remote' \in {Pushed(context.currentBranch), remote}
        /\ InCreatePR /\ v'.step = "creating" /\ v.step # "creating" =>
             v.step = "confirm" /\ job.pc = "idle" /\ SubmissionPushes'
        /\ SubmissionPushes /\ ~PRCreateCalled' =>
             /\ v'.step = "error" /\ job' = Idle /\ remote' = remote
        /\ remote'.prs # remote.prs => PRCreateCalled /\ v'.step = "done"]_vars
  /\ [](InCreatePR /\ v.step = "error" => ~PRCreateCalled)

\* A submission whose push succeeded has created the pull request.
C26_Witness ==
  /\ InCreatePR /\ v.step = "done" /\ job.pc = "idle"
  /\ git.current \in remote.prs /\ git.current \in remote.pushed

\* ---------------------------------------------------------------- C27
\* The token ticket-id extraction recognises at the start of `s`, removed
\* together with a '/' or '-' that follows it.
StripRecognisedTicket(s) ==
  LET n == Len(extractTicketId(s))
      sep == IF n + 1 <= Len(s) /\ s[n + 1] \in {"/", "-"} THEN 1 ELSE 0
  IN  IF extractTicketId(s) = NULL THEN s ELSE SubSeq(s, n + sep + 1, Len(s))

\* '-' and '_' become spaces and the first letter of every word a capital.
TitleCased(name) ==
  [i \in 1..Len(name) |->
     IF name[i] \in {"-", "_"} THEN " "
     ELSE IF i = 1 \/ name[i - 1] \in {"-", "_", " "} THEN toUpperCase(name[i])
     ELSE name[i]]

\* The step in which the loading step of create-ticket-from-branch suggests
\* the title.
TitleSuggested ==
  /\ currentView = "create-ticket-from-branch" /\ v.step = "loading"
  /\ v'.step = "select-type"

\* C27: the title create-ticket-from-branch suggests for a branch is the branch
\* name without one leading known prefix, then without the leading ticket id
\* that ticket-id extraction recognises (and the '/' or '-' after it), with '-'
\* and '_' as spaces and every word capitalised; it never begins with a ticket id.
C27_TitleFromBranch ==
  [][TitleSuggested =>
       /\ v'.title = TitleCased(StripRecognisedTicket(StripBranchPrefix(context.currentBranch)))
       /\ extractTicketId(v'.title) = NULL]_vars

\* A branch whose ticket id has a digit in its project part, after a known
\* prefix: the title keeps the id's characters.
C27_Witness ==
  /\ currentView = "create-ticket-from-branch" /\ v.step = "select-type"
  /\ git.current = <<"f", "i", "x", "/", "A", "1", "-", "1">>
  /\ v.title = <<"A", "1", " ", "1">>

\* ---------------------------------------------------------------- C28
CreatedFromBranch ==
  currentView = "create-ticket-from-branch" /\ v.step = "done" /\ ~exited
RenamedName == generateBranchName(v.createdTicketKey, v.title, cfg.slugMaxLength)

\* C28: whenever create-ticket-from-branch is at step done, the current branch
\* of the repository is generateBranchName(new ticket key, title, max slug
\* length) and the refreshed context links the ticket just created.
C28_DoneMeansRenamed ==
  CreatedFromBranch =>
    /\ git.current = RenamedName
    /\ context.linkedTicketId = v.createdTicketKey

\* The ticket was created, the rename failed and was swallowed: the view is at
\* done on the branch it started from, which links no ticket.
C28_Witness ==
  /\ CreatedFromBranch /\ v.createdTicketKey # <<>>
  /\ git.current # RenamedName /\ v.createdBranchName = git.current
  /\ context.linkedTicketId = NULL

\* ---------------------------------------------------------------- C29
\* The first interactive step of the two views that load with several fetches.
Interactive == IF currentView = "switch-branch" THEN "list" ELSE "select-type"
\* What the view holds for the optional fetches in `failed` is empty or null.
OptionalEmpty(failed) ==
  IF currentView = "switch-branch"
  THEN \A i \in 1..Len(v'.branches) :
         /\ Call("getPRInfoForBranches", <<>>) \in failed => v'.branches[i].prInfo = "null"
         /\ Call("getIssue", v'.branches[i].ticketId) \in failed =>
              v'.branches[i].ticket = NIL
  ELSE Call("getActiveSprints", <<>>) \in failed => v'.sprints = <<>>

\* C29: a loading step that issues several fetches leaves loading only when
\* every fetch has settled or a required fetch has failed, whatever the order
\* of the answers; a failed optional fetch (sprints, pull-request status, a
\* ticket lookup) gives an empty or null value and the step still becomes the
\* first interactive step; a failed required fetch makes the step error.
C29_JoinSettles ==
  [][v.step = "loading" /\ job.pc = "join" =>
       LET outstanding == IF job'.pc = "join" THEN job'.pending ELSE {}
           requiredFailed == job'.failed \cap RequiredCalls # {}
       IN  /\ v'.step # "loading" => outstanding = {} \/ requiredFailed
           /\ requiredFailed => v'.step = "error"
           /\ ~requiredFailed /\ outstanding # {} => v'.step = "loading"
           /\ ~requiredFailed /\ outstanding = {} =>
                v'.step = Interactive /\ OptionalEmpty(job'.failed)]_vars

\* Every fetch of create-ticket-from-branch has settled, the sprint lookup with
\* a failure: the view is at its first step with no sprints.
C29_Witness ==
  /\ currentView = "create-ticket-from-branch" /\ v.step = "select-type"
  /\ job.pc = "idle" /\ job.failed = {Call("getActiveSprints", <<>>)}
  /\ v.sprints = <<>>

\* ---------------------------------------------------------------- C30
\* The calls that change the tracker, the repository, the remote or the
\* configuration.
TrackerCalls == {"createIssue", "transition", "transitionIssueById"}
RepositoryCalls == {"createBranch", "checkoutBranch", "renameBranch"}
RemoteCalls == {"push", "handlePush", "prCreate"}
ConfigCalls == {"initialize", "setJiraToken"}
MutatingCalls == TrackerCalls \cup RepositoryCalls \cup RemoteCalls \cup ConfigCalls
\* A handler is between its submission and its last await.
Outstanding == job.pc # "idle"
KeyPressed == \E k \in AppKeys : ViewInput(k) \/ MainMenuInput(k)

Linked == currentView = "link-branch" /\ v.step = "done" /\ ~exited

\* C31: whenever link-branch is at step done, the refreshed context links the
\* selected ticket (linkedTicketId is its key), whichever entry of the
\* confirm-rename step was chosen.
C31_DoneMeansLinked ==
  Linked => v.selectedTicket # NIL /\ context.linkedTicketId = v.selectedTicket.key

\* "No, keep current name" was chosen: the view is at done, the branch has the
\* name it had and the context links no ticket.
C31_Witness ==
  /\ Linked /\ v.confirmIndex = 1 /\ v.selectedTicket # NIL
  /\ context.linkedTicketId = NULL
  /\ git.current = context.currentBranch /\ git.current # v.newBranchName

\* ---------------------------------------------------------------- C32
\* loadData of create-pr ends in one of the two steps it chooses between.
PRLoaded ==
  /\ currentView = "create-pr" /\ v.step = "loading"
  /\ v'.step \in {"push-needed", "edit-title"}
\* The checked-out branch has its counterpart on the remote, up to date.
OnRemote == git.current \in remote.pushed

\* What C32 says of the steps after loading: the editing steps are reached from
\* push-needed only through a push that succeeded, a push that fails gives
\* error, and leaving push-needed by Cancel or escape pushes nothing.
PushNeededSteps ==
  [][InCreatePR =>
       /\ v'.step = "edit-title" /\ v.step # "edit-title" =>
            v.step \in {"loading", "pushing", "edit-body"}
       /\ v.step = "pushing" /\ v'.step # "pushing" =>
            \/ v'.step = "edit-title" /\ remote' = Pushed(context.currentBranch)
                 /\ ~v'.needsPush
            \/ v'.step = "error" /\ remote' = remote
       /\ v.step = "push-needed" =>
            /\ remote' = remote
            /\ v'.step # "push-needed" =>
                 \/ v'.step = "pushing" /\ v.pushIndex = 0 /\ job'.pc = "handlePush"
                 \/ currentView' = "main" /\ job' = Idle]_vars

\* C32 (as stated): loading goes to push-needed exactly when the current branch
\* has no up-to-date remote counterpart, and to edit-title otherwise; then the
\* steps above.
C32_PushNeededExactly ==
  /\ [][PRLoaded => (v'.step = "push-needed" <=> ~OnRemote)]_vars
  /\ PushNeededSteps

\* C32 (amended): loading goes to push-needed whenever the branch has no
\* up-to-date remote counterpart, and also when `git status` cannot be run; it
\* goes to edit-title only for a branch that has one, and can do so for every
\* such branch; then the steps above.
C32_PushNeededOrStatusFailed ==
  /\ [][PRLoaded => (~OnRemote => v'.step = "push-needed")
                    /\ (v'.step = "edit-title" => OnRemote /\ ~v'.needsPush)]_vars
  /\ [](/\ InCreatePR /\ v.step = "loading" /\ load = "running" /\ OnRemote
        /\ context.workspace # NIL /\ context.workspaceName # NULL
        /\ context.linkedTicketId # NULL
        /\ getJiraToken(context.workspaceName) # NULL
        /\ getIssue(context.linkedTicketId) # NIL /\ ConfigLoads
        => ENABLED (CreatePRLoad /\ v'.step = "edit-title"))
  /\ PushNeededSteps

\* `git status` could not be run for a branch that is on the remote: the view
\* asks for a push all the same.
C32_Witness ==
  /\ InCreatePR /\ v.step = "push-needed" /\ OnRemote /\ v.needsPush
  /\ job.pc = "idle" /\ v.ticket # NIL

\* ---------------------------------------------------------------- C33
\* handleCreateBranch of start-work is running for a branch name that was
\* taken when the user confirmed.
NameTaken(calls) ==
  /\ currentView = "start-work" /\ ~exited
  /\ job.pc \in calls /\ v.branchName \in git.branches
\* Repository, tracker, remote, configuration and context are as they were.
NothingTouched == env' = env /\ context' = context

\* C33 (as stated): in start-work, when the generated branch name exists at the
\* confirmation, the step becomes error with the message that the branch
\* already exists, and nothing is created, checked out, transitioned or
\* refreshed.
C33_ExistingBranchMessage ==
  [][NameTaken({"branchExists"}) =>
       /\ v'.step = "error" /\ v'.error = "Branch already exists."
       /\ job' = Idle /\ NothingTouched]_vars

\* C33 (amended): the step becomes error and nothing is touched; the message is
\* the view's "already exists" when git lists the branches, and the message of
\* the failed configuration load or of git's refusal to create the branch when
\* the listing fails and branchExists answers false.
C33_ExistingBranchRefused ==
  [][NameTaken({"branchExists", "createBranch"}) =>
       /\ NothingTouched
       /\ job'.pc \in {"idle", "createBranch"}
       /\ job'.pc = "idle" => v'.step = "error" /\ v'.error # ""
       /\ job.pc = "branchExists" /\ job'.pc = "idle" =>
            v'.error = "Branch already exists."
       /\ job'.pc = "createBranch" => v'.step = "creating"]_vars

\* The view refused a name that is taken.
C33_Witness ==
  /\ currentView = "start-work" /\ v.step = "error"
  /\ v.error = "Branch already exists." /\ v.branchName \in git.branches
  /\ git.current # v.branchName /\ job.pc = "idle"

\* ---------------------------------------------------------------- C34
\* handleCreateBranch(false) is running: 'Create only (don't checkout)'.
CreatingOnly == currentView = "start-work" /\ ~exited /\ job.pc # "idle" /\ ~job.checkout

\* C34: in start-work, 'Create only (don't checkout)' creates the branch and
\* leaves the current branch of the repository as it was: no step of the
\* handler changes it, so at done it is the branch of the confirmation.
C34_CreateOnlyKeepsBranch ==
  [][CreatingOnly =>
       /\ git'.current = git.current
       /\ git' # git => git'.branches = git.branches \cup {v.branchName}]_vars

\* 'Create only' has ended at done and the repository is on the new branch.
C34_Witness ==
  /\ currentView = "start-work" /\ v.step = "done" /\ v.confirmIndex = 1
  /\ git.current = v.branchName /\ v.branchName \notin {MainBranch, FeatBranch}
  /\ job.pc = "idle"

\* ---------------------------------------------------------------- C35
\* The ticket id the transition list on screen was requested with.
ShownTransitionsOf ==
  IF v.step = "detail" THEN v.transitionsOf ELSE v.childTransitionsOf

\* A status commit leaves the detail (or child-detail) step for the tracker.
CommitIssued ==
  /\ InDetail /\ job.pc = "idle"
  /\ job'.pc = "transitionIssueById" /\ currentView' = "my-tickets"

\* C35: in my-tickets the transition list used for cycling and committing is
\* the one fetched for the ticket on screen: while a status is being edited over
\* a non-empty list, and whenever a commit is issued, the list was requested
\* with the key of the displayed ticket, and the id sent is one of that list.
C35_TransitionsOfShownTicket ==
  /\ [](InDetail /\ Editing /\ ShownTransitions # <<>> => ShownTransitionsOf = Shown.key)
  /\ [][CommitIssued =>
          /\ ShownTransitionsOf = Shown.key
          /\ job'.ticket.key = Shown.key
          /\ \E i \in 1..Len(ShownTransitions) : job'.transition = ShownTransitions[i]]_vars

\* A commit for one ticket is under way with a transition taken from the list
\* that was fetched for the other ticket.
C35_Witness ==
  /\ currentView = "my-tickets" /\ ~exited /\ v.step = "detail"
  /\ job.pc = "transitionIssueById"
  /\ v.transitionsOf \notin {NULL, job.ticket.key}
  /\ job.ticket.key = v.selectedTicket.key

\* ---------------------------------------------------------------- C36
InUpdateStatus == currentView = "update-ticket-status" /\ ~exited

\* What loadData needs before it asks the tracker: a workspace, its token and
\* the branch's ticket id.
StatusLoadable ==
  /\ context.workspace # NIL /\ context.workspaceName # NULL
  /\ context.linkedTicketId # NULL
  /\ getJiraToken(context.workspaceName) # NULL

\* C36: update-ticket-status ends its load in select only with a workspace, a
\* token and a linked ticket id, the ticket found and a non-empty transition
\* list, and in error otherwise; in select the cursor indexes a transition, and
\* a commit sends the id under the cursor, which is applied to the context's
\* linked ticket.
C36_SelectStep ==
  /\ [](InUpdateStatus /\ v.step = "select" =>
          /\ StatusLoadable
          /\ v.ticket # NIL /\ v.ticket = getIssue(context.linkedTicketId)
          /\ Len(v.transitions) >= 1
          /\ v.selectedIndex \in 0..(Len(v.transitions) - 1))
  /\ [][InUpdateStatus /\ load = "running" /\ load' = "idle" =>
          /\ v'.step \in {"select", "error"}
          /\ v'.step = "select" =>
               /\ StatusLoadable /\ getIssue(context.linkedTicketId) # NIL
               /\ v'.transitions = getAvailableTransitions(context.linkedTicketId, TRUE)
          /\ ~StatusLoadable => v'.step = "error"]_vars
  /\ [][InUpdateStatus /\ v.step = "select" /\ v'.step = "updating" =>
          /\ job'.pc = "transitionIssueById"
          /\ job'.id = v.transitions[v.selectedIndex + 1].id]_vars
  /\ [][InUpdateStatus /\ v.step = "updating" /\ v'.step = "done" =>
          \E i \in 1..Len(v.transitions) :
            /\ i = v.selectedIndex + 1
            /\ jira' = JiraTransitioned(context.linkedTicketId, v.transitions[i].toStatus)]_vars

\* The cursor was moved off the first transition and the commit succeeded.
C36_Witness ==
  /\ InUpdateStatus /\ v.step = "done" /\ v.selectedIndex >= 1
  /\ jira.issues[context.linkedTicketId].status = v.transitions[v.selectedIndex + 1].toStatus

\* ---------------------------------------------------------------- C37
\* The keys of a user who types letters and spaces, corrects them, submits and
\* goes back.
TitleKeys ==
  {Key(n, "") : n \in {"up", "down", "return", "escape", "tab", "backspace"}}
  \cup TypedKeys

\* new-ticket just mounted from the main menu, in a repository mapped to the
\* workspace.
InitNewTicketMounted ==
  /\ git = [isRepo |-> TRUE, current |-> MainBranch,
            branches |-> {MainBranch, FeatBranch, LinkedBranch}, remote |-> RepoId]
  /\ cfg = ValidConfig([k \in {RepoId} |-> WorkspaceName])
  /\ creds = [n \in {WorkspaceName} |-> Token]
  /\ jira = [issues |-> [k \in {Key1, Key2} |-> IF k = Key1 THEN Ticket1 ELSE Ticket2],
             created |-> 0, moved |-> 0]
  /\ remote = [pushed |-> {}, prs |-> {}]
  /\ currentView = "new-ticket"
  /\ context = getContext.ctx
  /\ isConfigured = TRUE
  /\ exited = FALSE
  /\ boot = "done"
  /\ v = InitNewTicket
  /\ sl = NoList
  /\ load = "running"
  /\ job = Idle
  /\ visits = MaxVisits

NextNewTicket ==
  \/ NewTicketLoad
  \/ \E k \in TitleKeys : NewTicketInput(k)
  \/ NewTicketJob

SpecNewTicket == InitNewTicketMounted /\ [][NextNewTicket]_vars

\* The steps of new-ticket that follow the title.
AfterTitle == {"enter-description", "confirm", "creating", "done"}
TitleHasText == \E i \in 1..Len(v.title) : ~IsBlankChar(v.title[i])

\* C37: in new-ticket the title holds a non-whitespace character whenever the
\* step is enter-description, confirm, creating or done, and every issue the
\* view creates has such a summary.
C37_TitleNonBlank ==
  /\ [](currentView = "new-ticket" /\ ~exited /\ v.step \in AfterTitle => TitleHasText)
  /\ [][currentView = "new-ticket" /\ jira'.created > jira.created =>
          /\ TitleHasText
          /\ jira'.issues[CreatedKey(jira'.created)].summary = v.title]_vars

\* A ticket was created under a title with text, with a description typed.
C37_Witness ==
  /\ currentView = "new-ticket" /\ ~exited /\ v.step = "done"
  /\ jira.created >= 1 /\ TitleHasText /\ v.description # <<>>
  /\ jira.issues[CreatedKey(jira.created)].summary = v.title

\* ---------------------------------------------------------------- C38
\* The keys of a user who fills in the wizard: letters, spaces and dots,
\* corrections, submitting and going back.
SetupKeys == TitleKeys \cup {Key("char", ".")}

\* The wizard just mounted: at the first start, without a configuration file,
\* or from the settings view, over the context the router holds.
InitSetupMounted ==
  /\ InitEnv
  /\ currentView = "setup"
  /\ \/ ~ConfigExists /\ context = NIL /\ isConfigured = FALSE
     \/ ConfigExists /\ ~getContext.raised /\ context = getContext.ctx
        /\ isConfigured = TRUE
  /\ exited = FALSE
  /\ boot = "done"
  /\ v = InitSetup
  /\ sl = NoList
  /\ load = "idle"
  /\ job = Idle
  /\ visits = MaxVisits

NextSetup ==
  \/ \E k \in SetupKeys : SetupInput(k)
  \/ SetupJob

SpecSetup == InitSetupMounted /\ [][NextSetup]_vars

InSetup == currentView = "setup" /\ ~exited
HasText(text) == \E i \in 1..Len(text) : ~IsBlankChar(text[i])
\* The configuration document handleProjectSelect builds from the wizard's fields.
WizardConfig ==
  createConfig(FirstLabel(v.domain),
               [domain |-> v.domain, email |-> v.email,
                defaultProject |-> v.selectedProject],
               v.repoIdentifier)
Saving == InSetup /\ job.pc \in {"initialize", "setJiraToken"}

\* C38: the wizard reaches done only by the token write, made after the
\* configuration document was written; a failed write ends in error without
\* the completion callback; the callback runs only from done; and the
\* connection test starts only with a non-blank domain, email and token.
C38_SetupOrder ==
  /\ [](InSetup /\ v.step = "done" =>
          cfg = WizardConfig /\ getJiraToken(FirstLabel(v.domain)) = v.token)
  /\ [][InSetup /\ v.step # "done" /\ v'.step = "done" =>
          /\ job.pc = "setJiraToken" /\ cfg = WizardConfig /\ cfg' = cfg
          /\ creds' = TokenSet(FirstLabel(v.domain), v.token)]_vars
  /\ [][InSetup /\ creds' # creds => cfg = WizardConfig /\ v'.step = "done"]_vars
  /\ [][InSetup /\ cfg' # cfg =>
          job.pc = "initialize" /\ job'.pc = "setJiraToken" /\ creds' = creds]_vars
  /\ [][Saving /\ job'.pc = "idle" /\ v'.step # "done" =>
          /\ v'.step = "error" /\ creds' = creds
          /\ currentView' = "setup" /\ context' = context
          /\ isConfigured' = isConfigured]_vars
  /\ [][InSetup /\ currentView' # "setup" => v.step = "done"]_vars
  /\ [](InSetup /\ job.pc = "testConnection" =>
          HasText(v.domain) /\ HasText(v.email) /\ HasText(v.token))

\* The wizard is done with both files written, over a configuration and a
\* token that were there before.
C38_Witness ==
  /\ InSetup /\ v.step = "done" /\ job.pc = "idle"
  /\ cfg = WizardConfig /\ getJiraToken(FirstLabel(v.domain)) = v.token
  /\ context # NIL

\* ---------------------------------------------------------------- C39
\* The completion callback has just put the router on main.
SetupCompleted == InSetup /\ v.step = "done" /\ currentView' = "main"

\* C39: when the wizard completes inside a git repository, the context stored
\* on entering main resolves the repository to the workspace just created: its
\* workspaceName is the first label of the entered domain, its workspace holds
\* the entered domain, email and project, and the token stored under that name
\* is the entered token.
C39_ContextAfterSetup ==
  [][SetupCompleted /\ git.isRepo =>
       /\ context'.workspaceName = FirstLabel(v.domain)
       /\ context'.workspace = [domain |-> v.domain, email |-> v.email,
                                defaultProject |-> v.selectedProject]
       /\ getJiraToken(FirstLabel(v.domain)) = v.token]_vars

\* Main is shown after the wizard, in a repository without an origin remote,
\* over a context without a workspace.
C39_Witness ==
  /\ currentView = "main" /\ ~exited /\ git.isRepo /\ git.remote = NULL
  /\ cfg.state = "valid" /\ cfg.workspaces # <<>> /\ isConfigured
  /\ context # NIL /\ context.workspace = NIL /\ context.workspaceName = NULL

\* ---------------------------------------------------------------- C40
\* The views that work on the ticket of the current branch, and the views
\* that give the current branch a ticket.
LinkedViews == {"create-pr", "update-ticket-status"}
LinkingViews == {"link-branch", "create-ticket-from-branch"}

\* C40: outside loading and setup the router holds a context; create-pr and
\* update-ticket-status are shown only over a context with a linked ticket id;
\* link-branch and create-ticket-from-branch are entered only over a context
\* of a git repository without a linked ticket id.
C40_RouterInvariants ==
  /\ [](currentView \notin {"loading", "setup"} => context # NIL)
  /\ [](currentView \in LinkedViews => context # NIL /\ context.linkedTicketId # NULL)
  /\ [][currentView' # currentView /\ currentView' \in LinkingViews =>
          /\ context' # NIL /\ context'.isGitRepo
          /\ context'.linkedTicketId = NULL]_vars

\* update-ticket-status was opened from the done step of create-pr.
C40_Witness ==
  /\ currentView = "update-ticket-status" /\ ~exited /\ v.step = "loading"
  /\ remote.prs # {} /\ context.linkedTicketId # NULL

====
